---------------------------- MODULE Spec2Model ----------------------------
(***************************************************************************)
(* Model of the search-orchestration and cache core of the AI tagging      *)
(* tool: the Rails shopping-search adapters (ai-tagging-api), the browser  *)
(* result cache and history log (ai-tagging-ui/lib/cache.ts), the cached   *)
(* API wrappers (lib/api.ts), the ProductLinksPanel component and the      *)
(* page handlers (app/page.tsx).                                           *)
(***************************************************************************)
EXTENDS Integers, Sequences, FiniteSets, TLC

(***************************************************************************)
(* Bounds of the model.                                                    *)
(***************************************************************************)
\* Longest product list a provider answers with.
MaxProducts == 2
\* Requests of the page and the panel awaiting their response at one time.
MaxInflight == 2

VARIABLES
    ls,           \* window.localStorage: key -> stored text
    now,          \* Date.now()
    ticks,        \* how many times the clock has advanced
    invocations,  \* how many calls or user actions there have been
    imageBase64,  \* store: imageBase64 (<<>> is null)
    objects,      \* store: objects, by the version of the detection shown
    isLoading,    \* store: isLoading
    isSearching,  \* page: isSearching, as the Boost flow sees it
    visualSearchResult, \* page: visualSearchResult, as the Boost flow sees it
    cacheStatus,  \* page: cacheStatus
    currentImageHash,   \* page: currentImageHash (<<>> is undefined)
    handlers,     \* handleBoost / handleSearchWholeImage calls awaiting a response
    log,          \* cache and history calls made by the last step, and what
                  \* the Boost that last finished delivered
    shopReq,      \* last request handled by ShoppingSearchAdapter.search
    shopCalls,    \* provider calls made while handling it
    shopResult,   \* the hash search returned
    shopPc,       \* "idle", or "done" once search has returned
    adapterCall,  \* the adapter entry point last called and how the call ended
    pnlObject,    \* page: searchingObjectId / searchingObjectLabel (panel props)
    pnlUrl,       \* panel prop originalImageUrl (with objectBoundingBox)
    pgVisual,     \* page: visualSearchResult (panel prop searchResult)
    pgIsSearching,\* page: isSearching
    pnlImage,     \* panel: imageSearchResult
    pnlKeyword,   \* panel: keywordSearchResult
    pnlLoadingImage,    \* panel: isLoadingImageSearch
    pnlLoadingKeyword,  \* panel: isLoadingKeywordSearch
    pnlHasSearched,     \* panel: hasSearched
    pnlSaved,     \* products handed to onProductsFound, per object
    inflight      \* requests awaiting their response

shopVars == <<shopReq, shopCalls, shopResult, shopPc, adapterCall>>

cacheVars ==
    <<ls, now, ticks, invocations, imageBase64, objects, isLoading, isSearching,
      visualSearchResult, cacheStatus, currentImageHash, handlers, log>>

\* Everything the product panel leaves alone.
nonPanelVars ==
    <<shopReq, shopCalls, shopResult, shopPc, adapterCall, ls, now, ticks,
      invocations, imageBase64,
      objects, isLoading, isSearching, visualSearchResult, cacheStatus,
      currentImageHash, handlers, log>>

panelVars ==
    <<pnlObject, pnlUrl, pgVisual, pgIsSearching, pnlImage, pnlKeyword,
      pnlLoadingImage, pnlLoadingKeyword, pnlHasSearched, pnlSaved,
      inflight>>

vars ==
    <<ls, now, ticks, invocations, imageBase64, objects, isLoading, isSearching,
      visualSearchResult, cacheStatus, currentImageHash, handlers, log,
      shopReq, shopCalls, shopResult, shopPc, adapterCall, pnlObject, pnlUrl,
      pgVisual,
      pgIsSearching, pnlImage, pnlKeyword, pnlLoadingImage, pnlLoadingKeyword,
      pnlHasSearched, pnlSaved, inflight>>

Null == "null"

(***************************************************************************)
(* Backend: Ai::GoogleLensProductsAdapter and Ai::ShoppingSearchAdapter.   *)
(***************************************************************************)

\* What the caller passes as image_url.
UrlKinds == {"none", "public", "imgix", "localhost", "blob"}

\* ENV["SERPAPI_KEY"]: unset, set to the empty string, or set.
KeyStates == {"nil", "empty", "set"}

\* Ruby's Object#present? on the key.
KeyPresent(key) == key = "set"

\* `unless api_key`: nil is the only falsy string value.
KeyTruthy(key) == key # "nil"

\* Product lists a provider may answer with, in provider order.
RECURSIVE ProductLists(_, _)
ProductLists(tag, n) ==
    IF n = 0 THEN {<<>>}
    ELSE LET shorter == ProductLists(tag, n - 1)
         IN shorter \cup
            {Append(l, [id |-> i, from |-> tag]) :
                l \in {s \in shorter : Len(s) = n - 1}, i \in 1..MaxProducts}

\* Outcome of one HTTP call to SerpApi.
ProviderOutcomes(tag) ==
    [kind : {"ok"}, products : ProductLists(tag, MaxProducts)]
      \cup [kind : {"http_error", "exception", "bad_json"}, products : {<<>>}]

\* The eight merchant links of fallback_search.
Merchants ==
    <<"Amazon", "eBay", "Wayfair", "IKEA", "Google Shopping", "Lazada",
      "Shopee", "HipVan">>

ShopFallbackSearch ==
    [success |-> TRUE, products |-> <<>>, shopping_links |-> Merchants,
     source |-> "fallback_links", search_type |-> Null, error |-> Null,
     message |-> "Direct product search not available. Use the shopping links below to search."]

\* GoogleLensProductsAdapter.fallback_search
LensFallbackSearch ==
    [success |-> FALSE, products |-> <<>>, shopping_links |-> <<>>,
     source |-> "fallback", search_type |-> Null,
     error |-> "SerpApi key not configured", message |-> Null]

LensFailure(err) ==
    [success |-> FALSE, products |-> <<>>, shopping_links |-> <<>>,
     source |-> Null, search_type |-> Null, error |-> err, message |-> Null]

\* image_url.match?(/^https?:\/\//)
IsHttpUrl(url) == url \in {"public", "imgix", "localhost"}

\* image_url.include?("localhost") || image_url.include?("127.0.0.1")
IsLocalUrl(url) == url = "localhost"

\* Whether GoogleLensProductsAdapter.search reaches Faraday.get.
LensCallsProvider(url, key) ==
    KeyTruthy(key) /\ IsHttpUrl(url) /\ ~IsLocalUrl(url)

\* GoogleLensProductsAdapter.handle_serpapi_response, with the rescue of search.
LensHandleResponse(out) ==
    CASE out.kind = "ok" ->
           [success |-> TRUE, products |-> out.products, shopping_links |-> <<>>,
            source |-> "serpapi_google_lens_products", search_type |-> Null,
            error |-> Null, message |-> Null]
      [] out.kind = "http_error" -> LensFailure("SerpApi request failed")
      [] OTHER -> LensFallbackSearch

\* An image search that sends whatever image_url it is given to the provider.
LensSearchAnyUrl(url, key, out) ==
    IF ~KeyTruthy(key) THEN LensFallbackSearch ELSE LensHandleResponse(out)

\* GoogleLensProductsAdapter.search
LensSearch(url, key, out) ==
    IF ~KeyTruthy(key) THEN LensFallbackSearch
    ELSE IF ~IsHttpUrl(url) THEN LensFailure("Invalid image URL")
    ELSE IF IsLocalUrl(url) THEN LensFailure("Local URL not accessible by SerpApi")
    ELSE LensHandleResponse(out)

\* ShoppingSearchAdapter.search_by_image
SearchByImage(url, key, out) ==
    LET result == LensSearch(url, key, out)
    IN IF result.success
       THEN [result EXCEPT !.search_type = "image"]
       ELSE result

\* ShoppingSearchAdapter.handle_serpapi_response
ShopHandleResponse(out) ==
    IF out.kind = "ok"
    THEN [success |-> TRUE, products |-> out.products, shopping_links |-> <<>>,
          source |-> "serpapi_google_shopping", search_type |-> "keyword",
          error |-> Null, message |-> Null]
    ELSE [success |-> FALSE, products |-> <<>>, shopping_links |-> <<>>,
          source |-> Null, search_type |-> Null,
          error |-> "SerpApi request failed", message |-> Null]

\* ShoppingSearchAdapter.search_serpapi
SearchSerpapi(key, out) ==
    IF ~KeyTruthy(key) THEN ShopFallbackSearch
    ELSE IF out.kind \in {"exception", "bad_json"} THEN ShopFallbackSearch
    ELSE ShopHandleResponse(out)

\* The image tier is tried: image_url.present? && ENV["SERPAPI_KEY"].present?
ImageTierTried(url, key) == url # "none" /\ KeyPresent(key)

\* The keyword tier is tried once the image tier has not returned.
KeywordTierTried(url, key, lensOut) ==
    /\ KeyPresent(key)
    /\ ~(/\ ImageTierTried(url, key)
         /\ SearchByImage(url, key, lensOut).success
         /\ SearchByImage(url, key, lensOut).products # <<>>)

\* A tier failure ends the request with that tier's failure hash.
ShoppingSearchAbortOnImageFailure(url, key, lensOut, serpOut) ==
    IF ImageTierTried(url, key)
    THEN SearchByImage(url, key, lensOut)
    ELSE IF KeyPresent(key) /\ SearchSerpapi(key, serpOut).success
    THEN SearchSerpapi(key, serpOut)
    ELSE ShopFallbackSearch

\* ShoppingSearchAdapter.search
ShoppingSearch(url, key, lensOut, serpOut) ==
    LET image == SearchByImage(url, key, lensOut)
        keyword == SearchSerpapi(key, serpOut)
    IN IF ImageTierTried(url, key) /\ image.success /\ image.products # <<>>
       THEN image
       ELSE IF KeyPresent(key) /\ keyword.success
       THEN keyword
       ELSE ShopFallbackSearch

NoOutcome == [kind |-> "none", products |-> <<>>]

NoShopRequest ==
    [url |-> "none", key |-> "nil", lens |-> NoOutcome, serp |-> NoOutcome]

NoShopResult ==
    [success |-> FALSE, products |-> <<>>, shopping_links |-> <<>>,
     source |-> Null, search_type |-> Null, error |-> Null, message |-> Null]

NoCalls == [lens |-> FALSE, serp |-> FALSE]

\* One request served by ShoppingSearchAdapter.search.
ShopSearchRequest ==
    /\ shopPc = "idle"
    /\ \E url \in UrlKinds, key \in KeyStates,
          lensOut \in ProviderOutcomes("image"),
          serpOut \in ProviderOutcomes("keyword") :
        /\ shopPc' = "done"
        /\ shopReq' = [url |-> url, key |-> key, lens |-> lensOut, serp |-> serpOut]
        /\ shopCalls' =
             [lens |-> ImageTierTried(url, key) /\ LensCallsProvider(url, key),
              serp |-> KeywordTierTried(url, key, lensOut) /\ KeyTruthy(key)]
        /\ shopResult' = ShoppingSearch(url, key, lensOut, serpOut)
    /\ UNCHANGED adapterCall

\* The controller has rendered the result; the adapter is ready for the next
\* request.
ShopRendered ==
    /\ shopPc = "done"
    /\ shopPc' = "idle"
    /\ shopReq' = NoShopRequest
    /\ shopCalls' = NoCalls
    /\ shopResult' = NoShopResult
    /\ UNCHANGED adapterCall

\* An exception leaves the entry point, or it returns a hash.
Raised(exception) ==
    [raised |-> TRUE, success |-> FALSE, error |-> exception, products |-> <<>>]

Returned(result) ==
    [raised |-> FALSE, success |-> result.success, error |-> result.error,
     products |-> result.products]

\* ENV["GOOGLE_CLOUD_API_KEY"] and the image_data a caller passes.
GoogleKeyStates == {"nil", "set"}

ImageDataKinds == {"nil", "base64"}

\* Outcome of the HTTP call to the Vision API; api_error is a 200 answer
\* whose body carries an error.
VisionOutcomes ==
    {"ok", "api_error", "http_error", "network_error", "timeout", "bad_json"}

\* VisualSearchAdapter.handle_response
VisualHandleResponse(out) ==
    CASE out = "ok" ->
           [success |-> TRUE, error |-> Null,
            products |-> <<[id |-> 1, from |-> "vision"]>>]
      [] out = "api_error" ->
           [success |-> FALSE, error |-> "Google Vision API error",
            products |-> <<>>]
      [] OTHER ->
           [success |-> FALSE, error |-> "API request failed with status",
            products |-> <<>>]

\* VisualSearchAdapter.execute_search: Faraday.post and JSON.parse are not
\* rescued.
VisualExecuteSearch(out) ==
    CASE out = "network_error" -> Raised("Faraday::ConnectionFailed")
      [] out = "timeout" -> Raised("Faraday::TimeoutError")
      [] out = "bad_json" -> Raised("JSON::ParserError")
      [] OTHER -> Returned(VisualHandleResponse(out))

\* VisualSearchAdapter.search
VisualAdapterSearch(key, image, out) ==
    IF ~KeyTruthy(key) THEN Raised("Google Cloud API Key not set")
    ELSE IF image = "nil" THEN Raised("NoMethodError")
    ELSE VisualExecuteSearch(out)

\* VisualSearchAdapter.search_from_url
VisualAdapterSearchFromUrl(key, out) ==
    IF ~KeyTruthy(key) THEN Raised("Google Cloud API Key not set")
    ELSE VisualExecuteSearch(out)

NoAdapterCall ==
    [pc |-> "idle", entry |-> "none", key |-> "nil", url |-> "none",
     called |-> FALSE,
     outcome |-> Returned([success |-> FALSE, error |-> Null, products |-> <<>>])]

\* A finished call: called tells whether the image-search provider was
\* requested (Faraday.get with engine google_lens, Faraday.post to Vision).
AdapterCall(entry, key, url, called, outcome) ==
    [pc |-> "done", entry |-> entry, key |-> key, url |-> url,
     called |-> called, outcome |-> outcome]

\* One call of an image-search entry point of the SerpApi adapters.
LensAdapterCalled ==
    /\ adapterCall.pc = "idle"
    /\ \E url \in UrlKinds \ {"none"}, key \in KeyStates,
          lensOut \in {o \in ProviderOutcomes("image") : Len(o.products) <= 1} :
        adapterCall' \in
          {AdapterCall("GoogleLensProductsAdapter.search", key, url,
                       LensCallsProvider(url, key),
                       Returned(LensSearch(url, key, lensOut))),
           AdapterCall("ShoppingSearchAdapter.search_by_image", key, url,
                       LensCallsProvider(url, key),
                       Returned(SearchByImage(url, key, lensOut)))}
    /\ UNCHANGED <<shopReq, shopCalls, shopResult, shopPc>>
    /\ UNCHANGED <<panelVars, cacheVars>>

\* One call of a keyword or tiered entry point of ShoppingSearchAdapter.
SerpAdapterCalled ==
    /\ adapterCall.pc = "idle"
    /\ \E url \in UrlKinds, key \in KeyStates,
          lensOut \in ProviderOutcomes("image"),
          serpOut \in ProviderOutcomes("keyword") :
        adapterCall' \in
          {AdapterCall("ShoppingSearchAdapter.search_serpapi", key, "none",
                       FALSE, Returned(SearchSerpapi(key, serpOut))),
           AdapterCall("ShoppingSearchAdapter.search", key, url,
                       ImageTierTried(url, key) /\ LensCallsProvider(url, key),
                       Returned(ShoppingSearch(url, key, lensOut, serpOut)))}
    /\ UNCHANGED <<shopReq, shopCalls, shopResult, shopPc>>
    /\ UNCHANGED <<panelVars, cacheVars>>

\* One call of an entry point of VisualSearchAdapter.
VisualAdapterCalled ==
    /\ adapterCall.pc = "idle"
    /\ \E key \in GoogleKeyStates, image \in ImageDataKinds,
          url \in UrlKinds \ {"none"}, out \in VisionOutcomes :
        adapterCall' \in
          {AdapterCall("VisualSearchAdapter.search", key, image,
                       KeyTruthy(key) /\ image # "nil",
                       VisualAdapterSearch(key, image, out)),
           AdapterCall("VisualSearchAdapter.search_from_url", key, url,
                       KeyTruthy(key),
                       VisualAdapterSearchFromUrl(key, out))}
    /\ UNCHANGED <<shopReq, shopCalls, shopResult, shopPc>>
    /\ UNCHANGED <<panelVars, cacheVars>>

\* The caller has taken the outcome.
AdapterReturned ==
    /\ adapterCall.pc = "done"
    /\ adapterCall' = NoAdapterCall
    /\ UNCHANGED <<shopReq, shopCalls, shopResult, shopPc>>
    /\ UNCHANGED <<panelVars, cacheVars>>

(***************************************************************************)
(* Pixel rects: GoogleLensProductsAdapter.build_imgix_crop_url,            *)
(* ThumbnailService#calculate_crop_area and the export of ExportModal.     *)
(* A box component is a number of hundredths; sizes are pixels.            *)
(***************************************************************************)

\* Whether the decimal h/scale is a binary fraction, which a Float holds
\* exactly; scale is 100 or 10000.
ExactFloatAt(h, scale) == h % (IF scale = 100 THEN 25 ELSE 625) = 0

ExactFloat(h) == ExactFloatAt(h, 100)

\* A conversion that rounds up.
ToIAtCeil(h, scale, n) == {(h * n + scale - 1) \div scale}

\* (h/scale * n).to_i: Float#to_i truncates.  The Float product is within one
\* rounding of h*n/scale, so the truncation is that of the exact product
\* unless the exact product is a whole number the Float can fall short of.
ToIAt(h, scale, n) ==
    LET q == (h * n) \div scale
    IN IF (h * n) % scale = 0 /\ ~ExactFloatAt(h, scale) /\ q > 0
       THEN {q - 1, q} ELSE {q}

\* The conversion of a component given in hundredths.
ToI(h, n) == ToIAt(h, 100, n)

\* Math.round(h/100 * n): to the nearest integer, a half upwards.
MathRound(h, n) ==
    LET q == (h * n) \div 100
    IN IF (h * n) % 100 = 50 /\ ~ExactFloat(h) THEN {q, q + 1}
       ELSE {(h * n + 50) \div 100}

NormalizedBox(x, y, width, height) ==
    [x |-> x, y |-> y, width |-> width, height |-> height]

PixelRect(x, y, width, height) ==
    [x |-> x, y |-> y, width |-> width, height |-> height]

\* image_dimensions of a request; nil when the client sent none.
NoDimensions == [width |-> 0, height |-> 0]

ImageDimensions(width, height) == [width |-> width, height |-> height]

\* The query parameters of the image URL that the crop reads: rect holds the
\* four numbers of an existing rect, w and dpr one number; <<>> when absent.
ImgixParams(rect, w, dpr) == [rect |-> rect, w |-> w, dpr |-> dpr]

\* The query of an image URL: a sequence of <<name, value>>, a value being
\* the numbers its text holds (the text of fit and auto stands as one number).
QueryPair(name, value) == <<name, value>>

\* The names of the pairs before position i
NamesBefore(query, i) == {query[j][1] : j \in 1..(i - 1)}

NamesAfter(query, i) == {query[j][1] : j \in (i + 1)..Len(query)}

\* URI.decode_www_form(uri.query || "").to_h: a Hash keeps a name at the place
\* of its first pair and with the value of its last pair.  And
\* URI.encode_www_form of a Hash: its pairs in that order.
RECURSIVE DecodeToH(_, _)
DecodeToH(query, i) ==
    IF i > Len(query) THEN <<>>
    ELSE IF query[i][1] \in NamesBefore(query, i) THEN DecodeToH(query, i + 1)
    ELSE LET last == CHOOSE j \in i..Len(query) :
                        /\ query[j][1] = query[i][1]
                        /\ query[i][1] \notin NamesAfter(query, j)
         IN <<QueryPair(query[i][1], query[last][2])>> \o DecodeToH(query, i + 1)

ToH(query) == DecodeToH(query, 1)

HashNames(hash) == {hash[i][1] : i \in 1..Len(hash)}

\* params[name]; <<>> is nil
HashGet(hash, name) ==
    IF name \in HashNames(hash)
    THEN hash[CHOOSE i \in 1..Len(hash) : hash[i][1] = name][2]
    ELSE <<>>

\* params[name] = value: in place when the name is there, else at the end
HashSet(hash, name, value) ==
    IF name \in HashNames(hash)
    THEN [i \in 1..Len(hash) |->
            IF hash[i][1] = name THEN QueryPair(name, value) ELSE hash[i]]
    ELSE Append(hash, QueryPair(name, value))

\* params.delete(name)
HashDelete(hash, name) == SelectSeq(hash, LAMBDA pair : pair[1] # name)

\* The parameters the crop reads from the query.
ParamsRead(query) ==
    ImgixParams(HashGet(ToH(query), "rect"), HashGet(ToH(query), "w"),
                HashGet(ToH(query), "dpr"))

\* (params["w"]&.to_i || 1000) * (params["dpr"]&.to_i || 1) and 1.5 times it
EstimatedDimensions(params) ==
    LET render_width == (IF params.w = <<>> THEN 1000 ELSE params.w[1])
                        * (IF params.dpr = <<>> THEN 1 ELSE params.dpr[1])
    IN ImageDimensions(render_width, (render_width * 3) \div 2)

\* The area build_imgix_crop_url takes the box to be relative to.
CropFrame(params, image_dimensions) ==
    IF params.rect # <<>>
    THEN PixelRect(params.rect[1], params.rect[2], params.rect[3], params.rect[4])
    ELSE IF image_dimensions # NoDimensions
    THEN PixelRect(0, 0, image_dimensions.width, image_dimensions.height)
    ELSE LET est == EstimatedDimensions(params)
         IN PixelRect(0, 0, est.width, est.height)

\* build_imgix_crop_url: the rects it can put in the rect parameter, for a box
\* whose components are given in 1/scale.
BuildImgixCropRectAt(params, bounding_box, image_dimensions, scale) ==
    LET frame == CropFrame(params, image_dimensions)
    IN {PixelRect(frame.x + crop_x, frame.y + crop_y, crop_w, crop_h) :
            crop_x \in ToIAt(bounding_box.x, scale, frame.width),
            crop_y \in ToIAt(bounding_box.y, scale, frame.height),
            crop_w \in ToIAt(bounding_box.width, scale, frame.width),
            crop_h \in ToIAt(bounding_box.height, scale, frame.height)}

\* The rects for a box whose components are hundredths.
BuildImgixCropRect(params, bounding_box, image_dimensions) ==
    BuildImgixCropRectAt(params, bounding_box, image_dimensions, 100)

\* params["w"] = [ crop_w, 500 ].min
CropOutputWidth(rect) == IF rect.width < 500 THEN rect.width ELSE 500

\* build_imgix_crop_url after the rect is computed: the query of the URL it
\* returns.
BuildImgixCropQuery(query, rect) ==
    LET withRect == HashSet(ToH(query), "rect",
                            <<rect.x, rect.y, rect.width, rect.height>>)
        withW == HashSet(withRect, "w", <<CropOutputWidth(rect)>>)
    IN HashDelete(HashDelete(withW, "dpr"), "fit")

\* calculate_crop_area: a box with no component above 1 is normalized, any
\* other box is taken to be in pixels already.
CalculateCropArea(bounding_box, image_dimensions) ==
    IF /\ bounding_box.x <= 100 /\ bounding_box.y <= 100
       /\ bounding_box.width <= 100 /\ bounding_box.height <= 100
    THEN {PixelRect(x, y, width, height) :
            x \in ToI(bounding_box.x, image_dimensions.width),
            y \in ToI(bounding_box.y, image_dimensions.height),
            width \in ToI(bounding_box.width, image_dimensions.width),
            height \in ToI(bounding_box.height, image_dimensions.height)}
    ELSE {PixelRect(bounding_box.x \div 100, bounding_box.y \div 100,
                    bounding_box.width \div 100, bounding_box.height \div 100)}

\* ExportModal: bounding_box_pixels of an object
BoundingBoxPixels(bounding_box, imageDimensions) ==
    {PixelRect(x, y, width, height) :
        x \in MathRound(bounding_box.x, imageDimensions.width),
        y \in MathRound(bounding_box.y, imageDimensions.height),
        width \in MathRound(bounding_box.width, imageDimensions.width),
        height \in MathRound(bounding_box.height, imageDimensions.height)}

\* The box components the rects are computed for.
BoxUnits == {0, 10, 11, 48, 50, 53, 100}

\* Normalized boxes that lie in the unit square.
ValidBoxes ==
    {NormalizedBox(x, y, width, height) :
        x \in BoxUnits, y \in BoxUnits, width \in BoxUnits, height \in BoxUnits}
    \cap {b \in [x : BoxUnits, y : BoxUnits, width : BoxUnits, height : BoxUnits] :
            b.x + b.width <= 100 /\ b.y + b.height <= 100}

\* A box given in pixels (12, 10, 120, 200).
PixelBoxes == {NormalizedBox(1200, 1000, 12000, 20000)}

ImageSizes ==
    {ImageDimensions(5504, 8256), ImageDimensions(100, 150),
     ImageDimensions(3, 3), ImageDimensions(1, 1)}

\* The queries of the image URLs: none, render hints, an existing rect, and a
\* name given twice.
UrlQueries ==
    {<<>>,
     <<QueryPair("w", <<800>>)>>,
     <<QueryPair("auto", <<1>>), QueryPair("w", <<800>>), QueryPair("dpr", <<2>>),
       QueryPair("fit", <<1>>)>>,
     <<QueryPair("rect", <<1000, 0, 500, 750>>), QueryPair("auto", <<1>>)>>,
     <<QueryPair("rect", <<0, 0, 3, 3>>), QueryPair("w", <<800>>),
       QueryPair("dpr", <<2>>)>>,
     <<QueryPair("dpr", <<2>>), QueryPair("auto", <<1>>), QueryPair("auto", <<2>>)>>}

UrlParameters == {ParamsRead(query) : query \in UrlQueries}

\* A finished computation of a pixel rect.
\* generate_object_thumbnail: whether it goes on to image.crop with the area
\* calculate_crop_area gave.
ThumbnailCropped(crop) == ~(crop.width <= 0 \/ crop.height <= 0)

\* Whether the rect of a call goes out in a request: GoogleLensProductsAdapter
\* .search puts the URL that build_imgix_crop_url returned in params[:url] of
\* its Faraday.get, generate_object_thumbnail crops unless it skips, and the
\* export only writes the numbers to a file.
CropEmitted(entry, rect) ==
    CASE entry = "GoogleLensProductsAdapter.build_imgix_crop_url" -> TRUE
      [] entry = "ThumbnailService#calculate_crop_area" -> ThumbnailCropped(rect)
      [] OTHER -> FALSE

CropCall(entry, query, box, dims, rect) ==
    [pc |-> "done", entry |-> entry, query |-> query,
     params |-> ParamsRead(query), box |-> box, dims |-> dims, rect |-> rect,
     out |-> BuildImgixCropQuery(query, rect),
     emitted |-> CropEmitted(entry, rect)]

\* build_imgix_crop_url is called.
CropUrlBuilt ==
    /\ adapterCall.pc = "idle"
    /\ \E query \in UrlQueries, box \in ValidBoxes,
          dims \in ImageSizes \cup {NoDimensions} :
        \E rect \in BuildImgixCropRect(ParamsRead(query), box, dims) :
            adapterCall' =
                CropCall("GoogleLensProductsAdapter.build_imgix_crop_url",
                         query, box, dims, rect)
    /\ UNCHANGED <<shopReq, shopCalls, shopResult, shopPc>>
    /\ UNCHANGED <<panelVars, cacheVars>>

\* calculate_crop_area is called.
CropAreaCalculated ==
    /\ adapterCall.pc = "idle"
    /\ \E box \in ValidBoxes \cup PixelBoxes, dims \in ImageSizes :
        \E rect \in CalculateCropArea(box, dims) :
            adapterCall' =
                CropCall("ThumbnailService#calculate_crop_area",
                         <<>>, box, dims, rect)
    /\ UNCHANGED <<shopReq, shopCalls, shopResult, shopPc>>
    /\ UNCHANGED <<panelVars, cacheVars>>

\* The export computes bounding_box_pixels of an object.
PixelsExported ==
    /\ adapterCall.pc = "idle"
    /\ \E box \in ValidBoxes, dims \in ImageSizes :
        \E rect \in BoundingBoxPixels(box, dims) :
            adapterCall' =
                CropCall("ExportModal.bounding_box_pixels",
                         <<>>, box, dims, rect)
    /\ UNCHANGED <<shopReq, shopCalls, shopResult, shopPc>>
    /\ UNCHANGED <<panelVars, cacheVars>>

\* The box that two nested boxes amount to: inner inside outer.  Its
\* components are products of hundredths, that is ten-thousandths.
EquivalentBox(outer, inner) ==
    NormalizedBox(outer.x * 100 + inner.x * outer.width,
                  outer.y * 100 + inner.y * outer.height,
                  outer.width * inner.width,
                  outer.height * inner.height)

NestedUnits == {0, 11, 50, 53}

\* The boxes that are nested.
NestedBoxes ==
    {b \in [x : NestedUnits, y : NestedUnits, width : NestedUnits,
            height : NestedUnits] :
        b.x + b.width <= 100 /\ b.y + b.height <= 100}

\* build_imgix_crop_url is called on a URL that has a rect, and again with
\* another box on the URL it returned; direct is a rect the function gives for
\* the first URL and the box the two amount to.  certain tells that no
\* conversion of the three calls depends on how the Float product fell.
CropOfCropBuilt ==
    /\ adapterCall.pc = "idle"
    /\ \E query \in {q \in UrlQueries : ParamsRead(q).rect # <<>>},
          outer \in NestedBoxes, inner \in NestedBoxes :
        LET firsts == BuildImgixCropRect(ParamsRead(query), outer, NoDimensions)
            seconds(first) ==
                BuildImgixCropRect(ParamsRead(BuildImgixCropQuery(query, first)),
                                   inner, NoDimensions)
            directs == BuildImgixCropRectAt(ParamsRead(query),
                           EquivalentBox(outer, inner), NoDimensions, 10000)
        IN \E first \in firsts :
            \E second \in seconds(first), direct \in directs :
              adapterCall' =
                [pc |-> "done",
                 entry |-> "GoogleLensProductsAdapter.build_imgix_crop_url (twice)",
                 query |-> query, box |-> outer, inner |-> inner,
                 first |-> first, rect |-> second, direct |-> direct,
                 certain |-> /\ Cardinality(firsts) = 1
                             /\ Cardinality(seconds(first)) = 1
                             /\ Cardinality(directs) = 1]
    /\ UNCHANGED <<shopReq, shopCalls, shopResult, shopPc>>
    /\ UNCHANGED <<panelVars, cacheVars>>

NextCrop ==
    \/ CropUrlBuilt
    \/ CropOfCropBuilt
    \/ CropAreaCalculated
    \/ PixelsExported
    \/ AdapterReturned

ShopInit ==
    /\ shopReq = NoShopRequest
    /\ shopCalls = NoCalls
    /\ shopResult = NoShopResult
    /\ shopPc = "idle"
    /\ adapterCall = NoAdapterCall


(***************************************************************************)
(* Frontend: app/page.tsx (handleFindSimilar) and ProductLinksPanel.       *)
(***************************************************************************)

\* Detected objects the user can select; an object's label is its id here.
Objects == {"o1", "o2"}

NoObject == "none"

\* originalImageUrl as the panel sees it: undefined, a blob: URL, a public URL.
PanelUrls == {"none", "blob", "public"}

\* A ShoppingSearchResult (or null) held in panel state. forObj records the
\* object whose request produced it.
NoPanelResult ==
    [set |-> FALSE, success |-> FALSE, products |-> <<>>, links |-> <<>>,
     search_type |-> Null, source |-> Null, error |-> Null,
     forObj |-> NoObject]

\* What shoppingSearch resolves to for a backend hash rendered by the controller.
ToClient(result, obj) ==
    [set |-> TRUE, success |-> result.success, products |-> result.products,
     links |-> result.shopping_links, search_type |-> result.search_type,
     source |-> result.source, error |-> result.error, forObj |-> obj]

\* shoppingSearch's catch branch: no response, or an error body without products.
ShoppingSearchError(obj) ==
    [set |-> TRUE, success |-> FALSE, products |-> <<>>, links |-> <<>>,
     search_type |-> Null, source |-> "error",
     error |-> "Network error occurred", forObj |-> obj]

\* The provider answers behind the panel's requests: no product or one.
PanelOutcomes(tag) ==
    {out \in ProviderOutcomes(tag) :
        out.products \in {<<>>, <<[id |-> 1, from |-> tag]>>}}

\* Every value shoppingSearch(query, {image_url}) can resolve to.
ShoppingSearchResults(url) ==
    {ToClient(ShoppingSearch(url, key, l, s), NoObject) :
        key \in KeyStates, l \in PanelOutcomes("image"),
        s \in PanelOutcomes("keyword")}
      \cup {ShoppingSearchError(NoObject)}

\* shoppingSearch('', {image_url, bounding_box}) with a public URL.
ImageApiResults == ShoppingSearchResults("public")

\* shoppingSearch(query, {})
KeywordApiResults == ShoppingSearchResults("none")

\* The result as the continuation of the request for obj receives it.
ResultFor(r, obj) == [r EXCEPT !.forObj = obj]

\* The panel's own result for a blob: URL.
SkippedImageSearch(obj) ==
    [set |-> TRUE, success |-> FALSE, products |-> <<>>, links |-> <<>>,
     search_type |-> "image", source |-> "skipped",
     error |-> "Image search requires a public URL", forObj |-> obj]

\* The page's visualSearchResult.
NoVisual == [set |-> FALSE, success |-> FALSE, forObj |-> NoObject]

VisualResult(ok, obj) == [set |-> TRUE, success |-> ok, forObj |-> obj]

\* A request awaiting its response: id tells two like requests apart.
Request(id, kind, obj, imgLen) ==
    [id |-> id, kind |-> kind, obj |-> obj, imgLen |-> imgLen]

RequestIds == 1..(MaxInflight + 1)

\* The n-th id no request of pending uses.
FreeId(pending, n) ==
    LET free == RequestIds \ {r.id : r \in pending}
    IN CHOOSE i \in free : Cardinality({j \in free : j < i}) = n - 1

\* fetchImageSearch up to its await: the request it starts, if any.
ImageRequests(pending) ==
    IF pnlUrl \in {"none", "blob"} THEN {}
    ELSE {Request(FreeId(pending, 1), "image", pnlObject, 0)}

\* fetchKeywordSearch up to its await. imgLen is imageSearchResult?.products
\* ?.length as the callback's closure holds it.
KeywordRequests(pending, image) ==
    {Request(FreeId(pending, 2), "keyword", pnlObject, Len(image.products))}

\* page.tsx handleFindSimilar up to its await, followed by the panel's reset
\* effect when objectId / objectLabel changed.
FindSimilar(obj) ==
    /\ Cardinality(inflight) < MaxInflight
    /\ pnlObject' = obj
    /\ pgIsSearching' = TRUE
    /\ pgVisual' = NoVisual
    /\ inflight' = inflight \cup {Request(FreeId(inflight, 1), "visual", obj, 0)}
    /\ IF obj # pnlObject
       THEN /\ pnlImage' = NoPanelResult
            /\ pnlKeyword' = NoPanelResult
            /\ pnlHasSearched' = FALSE
       ELSE UNCHANGED <<pnlImage, pnlKeyword, pnlHasSearched>>
    /\ UNCHANGED <<pnlUrl, pnlLoadingImage, pnlLoadingKeyword, pnlSaved>>
    /\ UNCHANGED nonPanelVars

\* handleFindSimilar after its await (setVisualSearchResult, setIsSearching),
\* followed by the panel's auto-trigger effect: runBothSearches(objectLabel).
VisualSearchDone(req, ok) ==
    /\ req \in inflight /\ req.kind = "visual"
    /\ pgVisual' = VisualResult(ok, req.obj)
    /\ pgIsSearching' = FALSE
    /\ IF pnlObject # NoObject /\ ok /\ ~pnlHasSearched
       THEN /\ Cardinality(inflight) + 1 <= MaxInflight
            /\ pnlHasSearched' = TRUE
            /\ pnlImage' = IF pnlUrl = "blob" THEN SkippedImageSearch(pnlObject)
                           ELSE pnlImage
            /\ pnlLoadingImage' =
                 (pnlLoadingImage \/ ImageRequests(inflight \ {req}) # {})
            /\ pnlLoadingKeyword' = TRUE
            /\ inflight' = (inflight \ {req})
                              \cup ImageRequests(inflight \ {req})
                              \cup KeywordRequests(inflight \ {req}, pnlImage)
       ELSE /\ inflight' = inflight \ {req}
            /\ UNCHANGED <<pnlHasSearched, pnlImage, pnlLoadingImage,
                           pnlLoadingKeyword>>
    /\ UNCHANGED <<pnlObject, pnlUrl, pnlKeyword, pnlSaved>>
    /\ UNCHANGED nonPanelVars

\* onProductsFound(objectId, relatedProducts)
ProductsFound(saved, obj, products) == [saved EXCEPT ![obj] = products]

\* An image search whose matches take the place of the keyword matches.
ImageSearchDoneReplacesKeyword(req, result) ==
    /\ req \in inflight /\ req.kind = "image"
    /\ inflight' = inflight \ {req}
    /\ IF result.search_type = "image"
       THEN /\ pnlImage' = result
            /\ pnlKeyword' = NoPanelResult
            /\ pnlSaved' =
                 IF result.success /\ result.products # <<>> /\ req.obj # NoObject
                 THEN ProductsFound(pnlSaved, req.obj, result.products)
                 ELSE pnlSaved
       ELSE /\ pnlKeyword' = result
            /\ UNCHANGED <<pnlImage, pnlSaved>>
    /\ pnlLoadingImage' = FALSE
    /\ UNCHANGED <<pnlObject, pnlUrl, pgVisual, pgIsSearching,
                   pnlLoadingKeyword, pnlHasSearched>>
    /\ UNCHANGED nonPanelVars

\* fetchImageSearch after its await.
ImageSearchDone(req, result) ==
    /\ req \in inflight /\ req.kind = "image"
    /\ inflight' = inflight \ {req}
    /\ IF result.search_type = "image"
       THEN /\ pnlImage' = result
            /\ pnlKeyword' = pnlKeyword
            /\ pnlSaved' =
                 IF result.success /\ result.products # <<>> /\ req.obj # NoObject
                 THEN ProductsFound(pnlSaved, req.obj, result.products)
                 ELSE pnlSaved
       ELSE /\ pnlKeyword' = result
            /\ UNCHANGED <<pnlImage, pnlSaved>>
    /\ pnlLoadingImage' = FALSE
    /\ UNCHANGED <<pnlObject, pnlUrl, pgVisual, pgIsSearching,
                   pnlLoadingKeyword, pnlHasSearched>>
    /\ UNCHANGED nonPanelVars

\* A keyword search that clears its indicator only after a successful answer.
KeywordSearchDoneNoFinally(req, result) ==
    /\ req \in inflight /\ req.kind = "keyword"
    /\ inflight' = inflight \ {req}
    /\ pnlKeyword' = result
    /\ pnlSaved' =
         IF req.imgLen = 0 /\ result.success /\ result.products # <<>>
            /\ req.obj # NoObject
         THEN ProductsFound(pnlSaved, req.obj, result.products)
         ELSE pnlSaved
    /\ pnlLoadingKeyword' = IF result.success THEN FALSE ELSE pnlLoadingKeyword
    /\ UNCHANGED <<pnlObject, pnlUrl, pgVisual, pgIsSearching, pnlImage,
                   pnlLoadingImage, pnlHasSearched>>
    /\ UNCHANGED nonPanelVars

\* fetchKeywordSearch after its await.
KeywordSearchDone(req, result) ==
    /\ req \in inflight /\ req.kind = "keyword"
    /\ inflight' = inflight \ {req}
    /\ pnlKeyword' = result
    /\ pnlSaved' =
         IF req.imgLen = 0 /\ result.success /\ result.products # <<>>
            /\ req.obj # NoObject
         THEN ProductsFound(pnlSaved, req.obj, result.products)
         ELSE pnlSaved
    /\ pnlLoadingKeyword' = FALSE
    /\ UNCHANGED <<pnlObject, pnlUrl, pgVisual, pgIsSearching, pnlImage,
                   pnlLoadingImage, pnlHasSearched>>
    /\ UNCHANGED nonPanelVars

\* The search box and the suggestion chips: fetchKeywordSearch(keyword).
ManualKeywordSearch ==
    /\ Cardinality(inflight) < MaxInflight
    /\ pnlObject # NoObject
    /\ pnlLoadingKeyword' = TRUE
    /\ inflight' = inflight \cup KeywordRequests(inflight, pnlImage)
    /\ UNCHANGED <<pnlObject, pnlUrl, pgVisual, pgIsSearching, pnlImage,
                   pnlKeyword, pnlLoadingImage, pnlHasSearched, pnlSaved>>
    /\ UNCHANGED nonPanelVars

PanelInit ==
    /\ pnlObject = NoObject
    /\ pnlUrl \in PanelUrls
    /\ pgVisual = NoVisual
    /\ pgIsSearching = FALSE
    /\ pnlImage = NoPanelResult
    /\ pnlKeyword = NoPanelResult
    /\ pnlLoadingImage = FALSE
    /\ pnlLoadingKeyword = FALSE
    /\ pnlHasSearched = FALSE
    /\ pnlSaved = [o \in Objects |-> <<>>]
    /\ inflight = {}

NextPanel ==
    \/ \E obj \in Objects : FindSimilar(obj)
    \/ \E req \in inflight, ok \in BOOLEAN : VisualSearchDone(req, ok)
    \/ \E req \in inflight, result \in ImageApiResults :
            ImageSearchDone(req, ResultFor(result, req.obj))
    \/ \E req \in inflight, result \in KeywordApiResults :
            KeywordSearchDone(req, ResultFor(result, req.obj))
    \/ ManualKeywordSearch


(***************************************************************************)
(* Browser cache: ai-tagging-ui/lib/cache.ts.  Strings are sequences of    *)
(* tokens, so that startsWith and includes are computed, not assumed.      *)
(***************************************************************************)

CACHE_PREFIX == <<"ai_tagging_", "cache_">>

CACHE_VERSION == <<"v", "1">>

HISTORY_KEY == <<"ai_tagging_", "history">>

\* 24 * 60 * 60 * 1000
MAX_CACHE_AGE_MS == 86400000

MAX_CACHE_ENTRIES == 50

\* clearOldestEntries(10) in setCachedResult
QUOTA_EVICT_COUNT == 10

Undefined == "undefined"

Max(a, b) == IF a > b THEN a ELSE b

Min(a, b) == IF a < b THEN a ELSE b

DigitChars == <<"0", "1", "2", "3", "4", "5", "6", "7", "8", "9">>

\* An unsigned 32-bit word as <<high 16 bits, low 16 bits>>.
\* hash = ((hash << 5) - hash) + char; hash = hash & hash
HashStep(h, char) ==
    LET lo == 31 * h[2] + char
        hi == 31 * h[1] + (lo \div 65536)
    IN <<hi % 65536, lo % 65536>>

RECURSIVE HashLoop(_, _, _)
HashLoop(sample, i, h) ==
    IF i > Len(sample) THEN h
    ELSE HashLoop(sample, i + 1, HashStep(h, sample[i]))

\* Math.abs of the word read as a signed 32-bit integer.
AbsInt32(h) ==
    IF h[1] < 32768 THEN h
    ELSE IF h[2] = 0 THEN <<65536 - h[1], 0>>
    ELSE <<65535 - h[1], 65536 - h[2]>>

\* Decimal digits of a word, as String(n) writes them.
RECURSIVE WordDigits(_)
WordDigits(w) ==
    LET t == (w[1] % 10) * 65536 + w[2]
        q == <<w[1] \div 10, t \div 10>>
        d == <<DigitChars[(t % 10) + 1]>>
    IN IF q = <<0, 0>> THEN d ELSE WordDigits(q) \o d

NatDigits(n) == WordDigits(<<n \div 65536, n % 65536>>)

\* imageBase64.slice(0, 1000) + imageBase64.slice(-1000) beyond 2000 chars
HashSample(str) ==
    IF Len(str) > 2000
    THEN SubSeq(str, 1, 1000) \o SubSeq(str, Len(str) - 999, Len(str))
    ELSE str

\* generateImageHash: `${CACHE_VERSION}_${Math.abs(hash)}_${imageBase64.length}`
\* of a string given by its char codes.
GenerateImageHash(str) ==
    CACHE_VERSION \o <<"_">>
      \o WordDigits(AbsInt32(HashLoop(HashSample(str), 1, <<0, 0>>)))
      \o <<"_">> \o NatDigits(Len(str))

\* String.prototype.startsWith
StartsWith(str, prefix) ==
    Len(str) >= Len(prefix) /\ SubSeq(str, 1, Len(prefix)) = prefix

\* String.prototype.includes
Includes(str, part) ==
    \E i \in 1..(Len(str) - Len(part) + 1) :
        SubSeq(str, i, i + Len(part) - 1) = part

\* `${CACHE_PREFIX}${cacheKey}_${imageHash}`
StorageKey(cacheKey, imageHash) == CACHE_PREFIX \o cacheKey \o <<"_">> \o imageHash

\* Of the properties of a result only error (error?: string) can be undefined.
IsDefined(data, f) == IF f = "error" THEN data[f] # Undefined ELSE TRUE

\* JSON.stringify of a cache entry: a property whose value is undefined is
\* left out of the text.
JsonStringify(entry) ==
    [text |-> "json",
     fields |-> {f \in DOMAIN entry.data : IsDefined(entry.data, f)},
     data |-> entry.data, timestamp |-> entry.timestamp,
     imageHash |-> entry.imageHash]

\* Whether JSON.parse accepts the stored text.
Parsable(value) == value.text = "json"

\* JSON.parse of a stored entry: a property the text lacks reads as undefined.
JsonParse(value) ==
    [data |-> [f \in DOMAIN value.data |->
                  IF f \in value.fields THEN value.data[f] ELSE Undefined],
     timestamp |-> value.timestamp, imageHash |-> value.imageHash]

\* localStorage.removeItem
RemoveItem(store, key) == [k \in DOMAIN store \ {key} |-> store[k]]

RemoveItems(store, keys) == [k \in DOMAIN store \ keys |-> store[k]]

\* localStorage.setItem, when it does not throw
SetItem(store, key, value) ==
    [k \in DOMAIN store \cup {key} |-> IF k = key THEN value ELSE store[k]]

\* Keys of the storage that start with CACHE_PREFIX.
CacheKeys(store) == {k \in DOMAIN store : StartsWith(k, CACHE_PREFIX)}

NoData == [success |-> FALSE, ver |-> 0, error |-> Undefined]

Miss == [hit |-> FALSE, data |-> NoData]

\* An expiry check that already fires at the limit.
ExpiredAtLimit(timestamp, t) == t - timestamp >= MAX_CACHE_AGE_MS

\* Date.now() - entry.timestamp > MAX_CACHE_AGE_MS
Expired(timestamp, t) == t - timestamp > MAX_CACHE_AGE_MS

\* A lookup that reports an expired entry absent but leaves it in the storage.
GetCachedResultKeepsExpired(store, cacheKey, imageHash, t) ==
    LET key == StorageKey(cacheKey, imageHash)
    IN IF key \notin DOMAIN store THEN [store |-> store, ret |-> Miss]
       ELSE IF ~Parsable(store[key]) THEN [store |-> store, ret |-> Miss]
       ELSE LET entry == JsonParse(store[key])
            IN IF Expired(entry.timestamp, t) \/ entry.imageHash # imageHash
               THEN [store |-> store, ret |-> Miss]
               ELSE [store |-> store, ret |-> [hit |-> TRUE, data |-> entry.data]]

\* getCachedResult: the storage it leaves and what it returns (Miss is null).
GetCachedResult(store, cacheKey, imageHash, t) ==
    LET key == StorageKey(cacheKey, imageHash)
    IN IF key \notin DOMAIN store THEN [store |-> store, ret |-> Miss]
       ELSE IF ~Parsable(store[key]) THEN [store |-> store, ret |-> Miss]
       ELSE LET entry == JsonParse(store[key])
            IN IF Expired(entry.timestamp, t)
               THEN [store |-> RemoveItem(store, key), ret |-> Miss]
               ELSE IF entry.imageHash # imageHash
               THEN [store |-> RemoveItem(store, key), ret |-> Miss]
               ELSE [store |-> store, ret |-> [hit |-> TRUE, data |-> entry.data]]

\* entry.timestamp || 0 of a stored entry
TimestampOf(store, k) == store[k].timestamp

\* entries.sort((a, b) => a.timestamp - b.timestamp); entries.slice(0, n): the
\* sort is stable and localStorage.key(i) order is user-agent defined, so
\* entries of equal timestamp come in any order.  The sets the n first can be.
OldestFirst(store, keys, n) ==
    LET stamps == {TimestampOf(store, k) : k \in keys}
        upTo(t) == Cardinality({k \in keys : TimestampOf(store, k) <= t})
        cut == CHOOSE t \in stamps :
                  /\ upTo(t) >= n
                  /\ \A u \in stamps : u < t => upTo(u) < n
        sure == {k \in keys : TimestampOf(store, k) < cut}
        tied == {k \in keys : TimestampOf(store, k) = cut}
    IN IF n <= 0 THEN {{}}
       ELSE IF n >= Cardinality(keys) THEN {keys}
       ELSE {sure \cup pick : pick \in {p \in SUBSET tied :
                                   Cardinality(p) = n - Cardinality(sure)}}

\* Array.prototype.slice(0, end): how many elements it returns.
SliceCount(len, end) == IF end < 0 THEN Max(len + end, 0) ELSE Min(end, len)

\* A cleanup that removes expired entries only and never enforces the cap.
CleanupOldEntriesExpiredOnly(store, t) ==
    {{k \in CacheKeys(store) :
         ~Parsable(store[k]) \/ Expired(TimestampOf(store, k), t)}}

\* cleanupOldEntries: the sets of keys it can remove.
CleanupOldEntries(store, t) ==
    LET entries == {k \in CacheKeys(store) : Parsable(store[k])}
        corrupt == CacheKeys(store) \ entries
        expired == {k \in entries : Expired(TimestampOf(store, k), t)}
        validEntries == entries \ expired
    IN IF Cardinality(entries) > MAX_CACHE_ENTRIES
       THEN {corrupt \cup expired \cup toRemove :
                toRemove \in OldestFirst(store, validEntries,
                    SliceCount(Cardinality(validEntries),
                        Cardinality(validEntries) - MAX_CACHE_ENTRIES))}
       ELSE {corrupt \cup expired}

\* clearOldestEntries(count): the sets of keys it can remove.
ClearOldestEntries(store, count) ==
    LET entries == {k \in CacheKeys(store) : Parsable(store[k])}
        corrupt == CacheKeys(store) \ entries
    IN {corrupt \cup toRemove : toRemove \in OldestFirst(store, entries, count)}

\* The keys removed, each with the timestamp its entry carried.
Stamped(store, keys) ==
    {[key |-> k,
      timestamp |-> IF Parsable(store[k]) THEN TimestampOf(store, k)
                    ELSE 0] : k \in keys}

\* What localStorage.setItem does: stores, throws QuotaExceededError, or
\* throws something else.
WriteOutcomes == {"ok", "quota", "error"}

\* A write whose failed retry is not caught.
SetCachedResultRethrows(store, cacheKey, imageHash, data, t, w1, w2) ==
    LET key == StorageKey(cacheKey, imageHash)
        value == JsonStringify([data |-> data, timestamp |-> t,
                                imageHash |-> imageHash])
        written == SetItem(store, key, value)
    IN CASE w1 = "ok" ->
              {[store |-> RemoveItems(written, gone), stored |-> TRUE,
                threw |-> FALSE, attempts |-> 1,
                removed |-> Stamped(written, gone)] :
                  gone \in CleanupOldEntries(written, t)}
         [] w1 = "quota" ->
              {[store |-> IF w2 = "ok"
                          THEN SetItem(RemoveItems(store, gone), key, value)
                          ELSE RemoveItems(store, gone),
                stored |-> w2 = "ok", threw |-> w2 # "ok", attempts |-> 2,
                removed |-> Stamped(store, gone)] :
                  gone \in ClearOldestEntries(store, QUOTA_EVICT_COUNT)}
         [] OTHER ->
              {[store |-> store, stored |-> FALSE, threw |-> FALSE,
                attempts |-> 1, removed |-> {}]}

\* setCachedResult: what it can do to the storage.  w1 is the outcome of the
\* first setItem, w2 that of the retry; attempts counts the setItem calls and
\* threw tells whether an exception leaves the function.
SetCachedResult(store, cacheKey, imageHash, data, t, w1, w2) ==
    LET key == StorageKey(cacheKey, imageHash)
        value == JsonStringify([data |-> data, timestamp |-> t,
                                imageHash |-> imageHash])
        written == SetItem(store, key, value)
    IN CASE w1 = "ok" ->
              {[store |-> RemoveItems(written, gone), stored |-> TRUE,
                threw |-> FALSE, attempts |-> 1,
                removed |-> Stamped(written, gone)] :
                  gone \in CleanupOldEntries(written, t)}
         [] w1 = "quota" ->
              {[store |-> IF w2 = "ok"
                          THEN SetItem(RemoveItems(store, gone), key, value)
                          ELSE RemoveItems(store, gone),
                stored |-> w2 = "ok", threw |-> FALSE, attempts |-> 2,
                removed |-> Stamped(store, gone)] :
                  gone \in ClearOldestEntries(store, QUOTA_EVICT_COUNT)}
         [] OTHER ->
              {[store |-> store, stored |-> FALSE, threw |-> FALSE,
                attempts |-> 1, removed |-> {}]}

\* An invalidation that removes nothing.
ClearCacheForImageNothing(store, imageHash) == store

\* clearCacheForImage
ClearCacheForImage(store, imageHash) ==
    RemoveItems(store, {k \in CacheKeys(store) : Includes(k, imageHash)})

\* An invalidation that removes every key of the application.
ClearAllCacheAppKeys(store) ==
    RemoveItems(store, {k \in DOMAIN store : StartsWith(k, <<"ai_tagging_">>)})

\* clearAllCache
ClearAllCache(store) == RemoveItems(store, CacheKeys(store))

(***************************************************************************)
(* History log, kept under its own storage key (cache.ts).                 *)
(***************************************************************************)

MAX_HISTORY_ENTRIES == 20

\* JSON.stringify / JSON.parse of the history array.
HistoryStringify(list) == [text |-> "json", list |-> list]

\* getHistory
GetHistory(store) ==
    IF HISTORY_KEY \notin DOMAIN store THEN <<>>
    ELSE IF ~Parsable(store[HISTORY_KEY]) THEN <<>>
    ELSE store[HISTORY_KEY].list

\* A search of the log that never finds the fingerprint.
FindIndexMisses(history, imageHash) == 0

\* history.findIndex(h => h.imageHash === entry.imageHash), 0 for -1
FindIndex(history, imageHash) ==
    IF \E i \in 1..Len(history) : history[i].imageHash = imageHash
    THEN CHOOSE i \in 1..Len(history) :
            /\ history[i].imageHash = imageHash
            /\ \A j \in 1..(i - 1) : history[j].imageHash # imageHash
    ELSE 0

\* Math.random().toString(36).substr(2, 9): a suffix no entry made in the same
\* millisecond carries.
RandomSuffix(history, t) ==
    CHOOSE r \in 1..(Len(history) + 1) :
        \A i \in 1..Len(history) : history[i].id # [t |-> t, r |-> r]

NoAdd == [called |-> FALSE, imageHash |-> <<>>, existingIndex |-> 0,
          stored |-> FALSE, before |-> <<>>]

\* addToHistory(entry) at time t; hw is the outcome of the setItem.
AddToHistory(store, entry, t, hw) ==
    LET history == GetHistory(store)
        existingIndex == FindIndex(history, entry.imageHash)
        updated ==
            IF existingIndex > 0
            THEN [history EXCEPT ![existingIndex] =
                     [id |-> @.id, timestamp |-> t,
                      imageHash |-> entry.imageHash,
                      imageThumbnail |-> entry.imageThumbnail,
                      objectCount |-> entry.objectCount,
                      provider |-> entry.provider]]
            ELSE <<[id |-> [t |-> t, r |-> RandomSuffix(history, t)],
                    timestamp |-> entry.timestamp,
                    imageHash |-> entry.imageHash,
                    imageThumbnail |-> entry.imageThumbnail,
                    objectCount |-> entry.objectCount,
                    provider |-> entry.provider]>> \o history
        trimmedHistory == SubSeq(updated, 1, Min(Len(updated), MAX_HISTORY_ENTRIES))
    IN [store |-> IF hw = "ok"
                  THEN SetItem(store, HISTORY_KEY, HistoryStringify(trimmedHistory))
                  ELSE store,
        log |-> [called |-> TRUE, imageHash |-> entry.imageHash,
                 existingIndex |-> existingIndex, stored |-> hw = "ok",
                 before |-> history]]

\* history.filter(h => h.id !== id)
RECURSIVE FilterOutId(_, _)
FilterOutId(history, id) ==
    IF history = <<>> THEN <<>>
    ELSE IF Head(history).id = id THEN FilterOutId(Tail(history), id)
    ELSE <<Head(history)>> \o FilterOutId(Tail(history), id)

\* removeFromHistory
RemoveFromHistory(store, id, hw) ==
    IF hw = "ok"
    THEN SetItem(store, HISTORY_KEY,
                 HistoryStringify(FilterOutId(GetHistory(store), id)))
    ELSE store

\* clearHistory
ClearHistory(store) == RemoveItem(store, HISTORY_KEY)

(***************************************************************************)
(* The search functions of lib/api.ts.                                     *)
(***************************************************************************)

\* How many calls or handlers may await a response at once.
MaxPending == 1

\* How many times the clock advances.
MaxTicks == 2

\* How many search-function calls a behaviour of SpecApi makes.
MaxCalls == 2

\* How many user actions and clock advances a behaviour has.
MaxClicks == 4

\* The clock moves by a millisecond or by a whole cache lifetime.
ClockSteps == {1, MAX_CACHE_AGE_MS}

NoImage == <<>>

NoHash == <<>>

\* Uploaded images, by the char codes of their base64 text: "Aa" and "Ab".
Images == {<<65, 97>>, <<65, 98>>}

\* Search queries, by their char codes: "Aa".
Queries == {<<65, 97>>}

Providers == {"google", "auto"}

\* provider === 'auto' ? 'google' : provider
RequestProvider(provider) == IF provider = "auto" THEN "google" ELSE provider

\* `detect_${input.options?.provider || 'default'}`
DetectCacheKey(provider) == <<"detect_", provider>>

\* `visual_search${bboxKey}` with bboxKey '_full' when there is no bounding box
VisualCacheKey == <<"visual_search", "_full">>

\* cacheKey of shoppingSearch
ShoppingCacheKey == <<"shopping_search">>

\* The cache key a search function uses; its fingerprint is that of the image,
\* or of the query for shoppingSearch without options.
CacheKeyOf(fn, provider) ==
    CASE fn = "detect" -> DetectCacheKey(provider)
      [] fn = "visual" -> VisualCacheKey
      [] OTHER -> ShoppingCacheKey

\* A successful answer of the API, told apart by ver.
Ok(ver) == [success |-> TRUE, ver |-> ver, error |-> Undefined]

\* An error body sent by the API.
Failed == [success |-> FALSE, ver |-> 0, error |-> "api error"]

NetworkError == [success |-> FALSE, ver |-> 0, error |-> "Network error occurred"]

UnexpectedError == [success |-> FALSE, ver |-> 0, error |-> "An unexpected error occurred"]

\* What apiClient.post can do: answer with a body, fail with a body, fail
\* without one.
Responses ==
    {[kind |-> "data", data |-> Ok(1)], [kind |-> "data", data |-> Ok(2)],
     [kind |-> "http_error", data |-> Failed],
     [kind |-> "network", data |-> NetworkError]}

\* { ...data, fromCache }
WithFromCache(data, fromCache) ==
    [set |-> TRUE, success |-> data.success, ver |-> data.ver,
     error |-> data.error, fromCache |-> fromCache]

NullResult ==
    [set |-> FALSE, success |-> FALSE, ver |-> 0, error |-> Undefined,
     fromCache |-> FALSE]

Pending == [state |-> "pending", ret |-> NullResult]

NotCalled == [state |-> "none", ret |-> NullResult]

Done(ret) == [state |-> "done", ret |-> ret]

NoSet ==
    [called |-> FALSE, key |-> <<>>, cacheKey |-> <<>>, imageHash |-> <<>>,
     data |-> NoData, w1 |-> "ok", stored |-> FALSE, threw |-> FALSE,
     attempts |-> 0, removed |-> {}, countBefore |-> 0, ret |-> NullResult]

NoBoost ==
    [settled |-> FALSE, skip |-> FALSE, imageHash |-> <<>>, hadEntry |-> FALSE,
     detect |-> NullResult, search |-> NullResult]

\* What handleLoadHistory did: the entry chosen and the message of setError.
NoLoad == [called |-> FALSE, imageHash |-> <<>>, error |-> "none"]

NoLog ==
    [gets |-> {}, set |-> NoSet, add |-> NoAdd, boost |-> NoBoost,
     load |-> NoLoad]

\* One getCachedResult call: what it found and what it returned.
GetLog(store, cacheKey, imageHash, got) ==
    LET key == StorageKey(cacheKey, imageHash)
        found == key \in DOMAIN store /\ Parsable(store[key])
    IN [key |-> key, found |-> found,
        timestamp |-> IF found THEN TimestampOf(store, key) ELSE 0,
        hit |-> got.ret.hit, data |-> got.ret.data]

\* A search function up to its await: the cache lookup.
ApiStart(store, cacheKey, imageHash, useCache, t) ==
    LET got == GetCachedResult(store, cacheKey, imageHash, t)
    IN IF useCache
       THEN [store |-> got.store,
             slot |-> IF got.ret.hit
                      THEN Done(WithFromCache(got.ret.data, TRUE))
                      ELSE Pending,
             gets |-> {GetLog(store, cacheKey, imageHash, got)}]
       ELSE [store |-> store, slot |-> Pending, gets |-> {}]

\* A search function after its await: what it can leave in the storage and
\* what it returns.  An exception out of setCachedResult would land in the
\* catch block, which answers for anything that is not an axios error.
ApiFinish(store, cacheKey, imageHash, response, t, w1, w2) ==
    IF response.kind = "data" /\ response.data.success
    THEN {[store |-> o.store,
           ret |-> IF o.threw THEN WithFromCache(UnexpectedError, FALSE)
                   ELSE WithFromCache(response.data, FALSE),
           set |-> [called |-> TRUE,
                    key |-> StorageKey(cacheKey, imageHash),
                    cacheKey |-> cacheKey, imageHash |-> imageHash,
                    data |-> response.data, w1 |-> w1, stored |-> o.stored,
                    threw |-> o.threw, attempts |-> o.attempts,
                    removed |-> o.removed,
                    countBefore |-> Cardinality({k \in CacheKeys(store) :
                                                    Parsable(store[k])}),
                    ret |-> IF o.threw THEN WithFromCache(UnexpectedError, FALSE)
                            ELSE WithFromCache(response.data, FALSE)]] :
            o \in SetCachedResult(store, cacheKey, imageHash, response.data,
                                  t, w1, w2)}
    ELSE {[store |-> store, ret |-> WithFromCache(response.data, FALSE),
           set |-> NoSet]}

FreeHandlerId == CHOOSE i \in 1..MaxPending : \A h \in handlers : h.id # i

\* A call of a search function that awaits its response.
ApiCall(fn, input, provider, slot) ==
    [id |-> FreeHandlerId, kind |-> "api", fn |-> fn, skip |-> FALSE,
     image |-> input, imageHash |-> GenerateImageHash(input),
     provider |-> provider, hadEntry |-> FALSE,
     detect |-> IF fn = "detect" THEN slot ELSE NotCalled,
     visual |-> IF fn = "visual" THEN slot ELSE NotCalled,
     shopping |-> IF fn = "shopping" THEN slot ELSE NotCalled]

\* A search function is called and runs up to its await, or returns the
\* cached result.
SearchCalled(fn, input, provider, useCache) ==
    /\ invocations < MaxCalls
    /\ Cardinality(handlers) < MaxPending
    /\ LET started == ApiStart(ls, CacheKeyOf(fn, provider),
                               GenerateImageHash(input), useCache, now)
       IN /\ ls' = started.store
          /\ log' = [NoLog EXCEPT !.gets = started.gets]
          /\ handlers' = IF started.slot.state = "done" THEN handlers
                         ELSE handlers \cup {ApiCall(fn, input, provider, started.slot)}
    /\ invocations' = invocations + 1
    /\ UNCHANGED <<now, ticks, imageBase64, objects, isLoading, isSearching,
                   visualSearchResult, cacheStatus, currentImageHash>>
    /\ UNCHANGED <<shopVars, panelVars>>

\* detectObjects(input, useCache)
detectObjects(image, provider, useCache) ==
    SearchCalled("detect", image, provider, useCache)

\* visualSearch(input, useCache) without a bounding box
visualSearch(image, useCache) == SearchCalled("visual", image, "google", useCache)

\* shoppingSearch(query, undefined, useCache)
shoppingSearch(query, useCache) ==
    SearchCalled("shopping", query, "google", useCache)

\* The response of a call arrives and the search function returns.
SearchReturns(h, response, w1, w2) ==
    /\ h \in handlers
    /\ h.kind = "api"
    /\ \E o \in ApiFinish(ls, CacheKeyOf(h.fn, h.provider), h.imageHash,
                          response, now, w1, w2) :
          /\ ls' = o.store
          /\ log' = [NoLog EXCEPT !.set = o.set]
    /\ handlers' = handlers \ {h}
    /\ UNCHANGED <<now, ticks, invocations, imageBase64, objects, isLoading,
                   isSearching, visualSearchResult, cacheStatus,
                   currentImageHash>>
    /\ UNCHANGED <<shopVars, panelVars>>

\* Time passes.
Tick(step) ==
    /\ ticks < MaxTicks
    /\ invocations + ticks < MaxClicks
    /\ ticks' = ticks + 1
    /\ now' = now + step
    /\ log' = NoLog
    /\ UNCHANGED <<ls, invocations, imageBase64, objects, isLoading,
                   isSearching, visualSearchResult, cacheStatus,
                   currentImageHash, handlers>>
    /\ UNCHANGED <<shopVars, panelVars>>

(***************************************************************************)
(* The page handlers that run the searches (app/page.tsx).                 *)
(***************************************************************************)

\* Whether a lookup for the image would hit before the handler runs.
HasValidEntry(store, provider, imageHash, t) ==
    \E fn \in {"detect", "visual"} :
        GetCachedResult(store, CacheKeyOf(fn, RequestProvider(provider)),
                        imageHash, t).ret.hit

NoCacheStatus == [set |-> FALSE, detection |-> FALSE, search |-> FALSE]

\* A Boost that gives up the search result when the detection has failed.
BoostSettledDetectionFirst(h, store, gets, set, hw) ==
    LET add == IF h.detect.ret.success
               THEN AddToHistory(store,
                        [timestamp |-> now, imageHash |-> h.imageHash,
                         imageThumbnail |-> IF Len(h.image) < 50000
                                            THEN h.image ELSE NoImage,
                         objectCount |-> h.detect.ret.ver,
                         provider |-> h.provider],
                        now, hw)
               ELSE [store |-> store, log |-> NoAdd]
    IN /\ ls' = add.store
       /\ objects' = IF h.detect.ret.success THEN h.detect.ret.ver ELSE objects
       /\ visualSearchResult' = IF h.detect.ret.success THEN h.visual.ret
                               ELSE visualSearchResult
       /\ cacheStatus' = [set |-> TRUE, detection |-> h.detect.ret.fromCache,
                          search |-> h.visual.ret.fromCache]
       /\ isLoading' = FALSE
       /\ isSearching' = FALSE
       /\ log' = [gets |-> gets, set |-> set, add |-> add.log,
                  boost |-> [settled |-> TRUE, skip |-> h.skip,
                             imageHash |-> h.imageHash,
                             hadEntry |-> h.hadEntry,
                             detect |-> h.detect.ret,
                             search |-> h.visual.ret],
                  load |-> NoLoad]

\* handleBoost after Promise.allSettled: both results are in.
BoostSettled(h, store, gets, set, hw) ==
    LET add == IF h.detect.ret.success
               THEN AddToHistory(store,
                        [timestamp |-> now, imageHash |-> h.imageHash,
                         imageThumbnail |-> IF Len(h.image) < 50000
                                            THEN h.image ELSE NoImage,
                         objectCount |-> h.detect.ret.ver,
                         provider |-> h.provider],
                        now, hw)
               ELSE [store |-> store, log |-> NoAdd]
    IN /\ ls' = add.store
       /\ objects' = IF h.detect.ret.success THEN h.detect.ret.ver ELSE objects
       /\ visualSearchResult' = h.visual.ret
       /\ cacheStatus' = [set |-> TRUE, detection |-> h.detect.ret.fromCache,
                          search |-> h.visual.ret.fromCache]
       /\ isLoading' = FALSE
       /\ isSearching' = FALSE
       /\ log' = [gets |-> gets, set |-> set, add |-> add.log,
                  boost |-> [settled |-> TRUE, skip |-> h.skip,
                             imageHash |-> h.imageHash,
                             hadEntry |-> h.hadEntry,
                             detect |-> h.detect.ret,
                             search |-> h.visual.ret],
                  load |-> NoLoad]

\* handleBoost(provider, skipCache) up to its await.  The Boost button is
\* disabled while isLoading, the Refresh button (skipCache) while isSearching
\* or before any Boost.
HandleBoost(provider, skipCache, hw) ==
    /\ invocations + ticks < MaxClicks
    /\ imageBase64 # NoImage
    /\ \/ ~isLoading
       \/ skipCache /\ currentImageHash # NoHash /\ ~isSearching
    /\ Cardinality(handlers) < MaxPending
    /\ LET imageHash == GenerateImageHash(imageBase64)
           cleared == IF skipCache THEN ClearCacheForImage(ls, imageHash) ELSE ls
           d == ApiStart(cleared, CacheKeyOf("detect", RequestProvider(provider)),
                         imageHash, ~skipCache, now)
           v == ApiStart(d.store, VisualCacheKey, imageHash, ~skipCache, now)
           h == [id |-> FreeHandlerId, kind |-> "boost", fn |-> "boost",
                 skip |-> skipCache,
                 image |-> imageBase64, imageHash |-> imageHash,
                 provider |-> provider,
                 hadEntry |-> HasValidEntry(ls, provider, imageHash, now),
                 detect |-> d.slot, visual |-> v.slot, shopping |-> NotCalled]
       IN /\ currentImageHash' = imageHash
          /\ IF d.slot.state = "done" /\ v.slot.state = "done"
             THEN /\ BoostSettled(h, v.store, d.gets \cup v.gets, NoSet, hw)
                  /\ UNCHANGED handlers
             ELSE /\ ls' = v.store
                  /\ isLoading' = TRUE
                  /\ isSearching' = TRUE
                  /\ visualSearchResult' = NullResult
                  /\ cacheStatus' = NoCacheStatus
                  /\ handlers' = handlers \cup {h}
                  /\ log' = [NoLog EXCEPT !.gets = d.gets \cup v.gets]
                  /\ UNCHANGED objects
    /\ invocations' = invocations + 1
    /\ UNCHANGED <<now, ticks, imageBase64>>
    /\ UNCHANGED <<shopVars, panelVars>>

\* detectObjects or visualSearch of a Boost gets its response; the handler
\* goes on once both have.
BoostResponse(h, fn, response, w1, w2, hw) ==
    /\ h \in handlers
    /\ h.kind = "boost"
    /\ h[fn].state = "pending"
    /\ \E o \in ApiFinish(ls, CacheKeyOf(fn, RequestProvider(h.provider)),
                          h.imageHash, response, now, w1, w2) :
          LET h2 == [h EXCEPT ![fn] = Done(o.ret)]
          IN IF h2.detect.state = "done" /\ h2.visual.state = "done"
             THEN /\ BoostSettled(h2, o.store, {}, o.set, hw)
                  /\ handlers' = handlers \ {h}
             ELSE /\ ls' = o.store
                  /\ handlers' = (handlers \ {h}) \cup {h2}
                  /\ log' = [NoLog EXCEPT !.set = o.set]
                  /\ UNCHANGED <<objects, isLoading, isSearching,
                                 visualSearchResult, cacheStatus>>
    /\ UNCHANGED <<now, ticks, invocations, imageBase64, currentImageHash>>
    /\ UNCHANGED <<shopVars, panelVars>>

DetectResponse(h, response, w1, w2, hw) ==
    BoostResponse(h, "detect", response, w1, w2, hw)

VisualResponse(h, response, w1, w2, hw) ==
    BoostResponse(h, "visual", response, w1, w2, hw)

\* handleSearchWholeImage up to its await (the button is disabled while
\* isSearching); visualSearch reads the cache by default.
HandleSearchWholeImage ==
    /\ invocations + ticks < MaxClicks
    /\ imageBase64 # NoImage
    /\ ~isSearching
    /\ Cardinality(handlers) < MaxPending
    /\ LET imageHash == GenerateImageHash(imageBase64)
           v == ApiStart(ls, VisualCacheKey, imageHash, TRUE, now)
           h == [id |-> FreeHandlerId, kind |-> "whole", fn |-> "visual",
                 skip |-> FALSE,
                 image |-> imageBase64, imageHash |-> imageHash,
                 provider |-> "google", hadEntry |-> FALSE,
                 detect |-> NotCalled, visual |-> v.slot,
                 shopping |-> NotCalled]
       IN /\ ls' = v.store
          /\ log' = [NoLog EXCEPT !.gets = v.gets]
          /\ IF v.slot.state = "done"
             THEN /\ visualSearchResult' = v.slot.ret
                  /\ isSearching' = FALSE
                  /\ UNCHANGED handlers
             ELSE /\ visualSearchResult' = NullResult
                  /\ isSearching' = TRUE
                  /\ handlers' = handlers \cup {h}
    /\ invocations' = invocations + 1
    /\ UNCHANGED <<now, ticks, imageBase64, objects, isLoading, cacheStatus,
                   currentImageHash>>
    /\ UNCHANGED <<shopVars, panelVars>>

\* visualSearch of handleSearchWholeImage gets its response.
WholeImageResponse(h, response, w1, w2) ==
    /\ h \in handlers
    /\ h.kind = "whole"
    /\ \E o \in ApiFinish(ls, VisualCacheKey, h.imageHash, response, now, w1, w2) :
          /\ ls' = o.store
          /\ visualSearchResult' = o.ret
          /\ log' = [NoLog EXCEPT !.set = o.set]
    /\ isSearching' = FALSE
    /\ handlers' = handlers \ {h}
    /\ UNCHANGED <<now, ticks, invocations, imageBase64, objects, isLoading,
                   cacheStatus, currentImageHash>>
    /\ UNCHANGED <<shopVars, panelVars>>

\* ImageUploader: setImage(url, base64, dimensions)
UploadImage(image) ==
    /\ invocations + ticks < MaxClicks
    /\ image # imageBase64
    /\ imageBase64' = image
    /\ objects' = 0
    /\ log' = NoLog
    /\ invocations' = invocations + 1
    /\ UNCHANGED <<ls, now, ticks, isLoading, isSearching, visualSearchResult,
                   cacheStatus, currentImageHash, handlers>>
    /\ UNCHANGED <<shopVars, panelVars>>

\* The Clear button of the page.
ClearImage ==
    /\ invocations + ticks < MaxClicks
    /\ imageBase64 # NoImage
    /\ ls' = IF currentImageHash # NoHash
             THEN ClearCacheForImage(ls, currentImageHash) ELSE ls
    /\ imageBase64' = NoImage
    /\ objects' = 0
    /\ currentImageHash' = NoHash
    /\ visualSearchResult' = NullResult
    /\ cacheStatus' = NoCacheStatus
    /\ log' = NoLog
    /\ invocations' = invocations + 1
    /\ UNCHANGED <<now, ticks, isLoading, isSearching, handlers>>
    /\ UNCHANGED <<shopVars, panelVars>>

\* HistoryPanel: handleDelete(id) on a listed entry
HistoryDelete(id, hw) ==
    /\ invocations + ticks < MaxClicks
    /\ \E i \in 1..Len(GetHistory(ls)) : GetHistory(ls)[i].id = id
    /\ ls' = RemoveFromHistory(ls, id, hw)
    /\ log' = NoLog
    /\ invocations' = invocations + 1
    /\ UNCHANGED <<now, ticks, imageBase64, objects, isLoading, isSearching,
                   visualSearchResult, cacheStatus, currentImageHash, handlers>>
    /\ UNCHANGED <<shopVars, panelVars>>

\* HistoryPanel: handleClearAll
HistoryClearAll ==
    /\ invocations + ticks < MaxClicks
    /\ HISTORY_KEY \in DOMAIN ls
    /\ ls' = ClearHistory(ls)
    /\ log' = NoLog
    /\ invocations' = invocations + 1
    /\ UNCHANGED <<now, ticks, imageBase64, objects, isLoading, isSearching,
                   visualSearchResult, cacheStatus, currentImageHash, handlers>>
    /\ UNCHANGED <<shopVars, panelVars>>

\* The cache keys handleLoadHistory passes to getCachedResult.
LoadDetectionKey == <<"detection">>

LoadSearchKey == <<"visualSearch">>

\* HistoryPanel: a click on a listed entry, onLoadHistory(entry.imageHash),
\* which is handleLoadHistory(imageHash) of the page.
HandleLoadHistory(imageHash) ==
    /\ invocations + ticks < MaxClicks
    /\ \E i \in 1..Len(GetHistory(ls)) : GetHistory(ls)[i].imageHash = imageHash
    /\ LET cachedDetection == GetCachedResult(ls, LoadDetectionKey, imageHash, now)
           cachedSearch == GetCachedResult(cachedDetection.store, LoadSearchKey,
                                           imageHash, now)
           gets == {GetLog(ls, LoadDetectionKey, imageHash, cachedDetection),
                    GetLog(cachedDetection.store, LoadSearchKey, imageHash,
                           cachedSearch)}
       IN /\ ls' = cachedSearch.store
          /\ IF cachedDetection.ret.hit
             THEN /\ objects' = cachedDetection.ret.data.ver
                  /\ currentImageHash' = imageHash
                  /\ cacheStatus' = [set |-> TRUE, detection |-> TRUE,
                                     search |-> cachedSearch.ret.hit]
                  /\ visualSearchResult' =
                        IF cachedSearch.ret.hit
                        THEN [set |-> TRUE,
                              success |-> cachedSearch.ret.data.success,
                              ver |-> cachedSearch.ret.data.ver,
                              error |-> cachedSearch.ret.data.error,
                              fromCache |-> FALSE]
                        ELSE visualSearchResult
                  /\ log' = [NoLog EXCEPT !.gets = gets,
                                !.load = [called |-> TRUE, imageHash |-> imageHash,
                                          error |-> "none"]]
             ELSE /\ log' = [NoLog EXCEPT !.gets = gets,
                                !.load = [called |-> TRUE, imageHash |-> imageHash,
                                          error |-> "Cached data not found. Please re-analyze the image."]]
                  /\ UNCHANGED <<objects, currentImageHash, cacheStatus,
                                 visualSearchResult>>
    /\ invocations' = invocations + 1
    /\ UNCHANGED <<now, ticks, imageBase64, isLoading, isSearching, handlers>>
    /\ UNCHANGED <<shopVars, panelVars>>

\* Entries left by earlier sessions: the i-th was written at time i for an
\* image of its own (a one-letter base64 text).
FillerImage(i) == <<IF i <= 26 THEN 64 + i ELSE 70 + i>>

FillerKey(i) ==
    StorageKey(DetectCacheKey("google"), GenerateImageHash(FillerImage(i)))

FillerStore(n) ==
    [k \in {FillerKey(i) : i \in 1..n} |->
        LET i == CHOOSE j \in 1..n : k = FillerKey(j)
        IN JsonStringify([data |-> Ok(1), timestamp |-> i,
                          imageHash |-> GenerateImageHash(FillerImage(i))])]

\* The storage starts empty or at the cap.
FillCounts == {0, MAX_CACHE_ENTRIES}

InitialStores == {FillerStore(n) : n \in FillCounts}

\* The images the search functions are called with: a new one and the one
\* the oldest stored entry is for.
ApiImages == {<<65, 97>>, FillerImage(1)}

\* The page and the storage at rest, the storage holding store.
CacheInit(store) ==
    /\ ls = store
    /\ now = MAX_CACHE_ENTRIES
    /\ ticks = 0
    /\ invocations = 0
    /\ imageBase64 = NoImage
    /\ objects = 0
    /\ isLoading = FALSE
    /\ isSearching = FALSE
    /\ visualSearchResult = NullResult
    /\ cacheStatus = NoCacheStatus
    /\ currentImageHash = NoHash
    /\ handlers = {}
    /\ log = NoLog

\* Storage outcomes that matter for a response: a write happens only for a
\* successful answer, a retry only after a quota error.
Writes(response) ==
    IF response.kind = "data" /\ response.data.success THEN WriteOutcomes
    ELSE {"ok"}

Retries(w1) == IF w1 = "quota" THEN {"ok", "quota"} ELSE {"ok"}

HistoryWrites == {"ok", "quota"}

\* The answers and storage outcomes the page flow is examined with.
PageResponses ==
    {[kind |-> "data", data |-> Ok(1)], [kind |-> "data", data |-> Ok(2)],
     [kind |-> "network", data |-> NetworkError]}

PageWrites(response) == Writes(response) \ {"quota"}

NextApi ==
    \/ \E image \in ApiImages, useCache \in BOOLEAN :
            detectObjects(image, "google", useCache)
    \/ \E image \in ApiImages, useCache \in BOOLEAN : visualSearch(image, useCache)
    \/ \E query \in Queries, useCache \in BOOLEAN : shoppingSearch(query, useCache)
    \/ \E h \in handlers, response \in Responses :
        \E w1 \in Writes(response) : \E w2 \in Retries(w1) :
            SearchReturns(h, response, w1, w2)
    \/ \E step \in ClockSteps : Tick(step)

NextPage ==
    \/ \E provider \in Providers, skipCache \in BOOLEAN, hw \in HistoryWrites :
            HandleBoost(provider, skipCache, hw)
    \/ \E h \in handlers, response \in PageResponses :
        \E w1 \in PageWrites(response) : \E w2 \in Retries(w1) :
          \E hw \in HistoryWrites : DetectResponse(h, response, w1, w2, hw)
    \/ \E h \in handlers, response \in PageResponses :
        \E w1 \in PageWrites(response) : \E w2 \in Retries(w1) :
          \E hw \in HistoryWrites : VisualResponse(h, response, w1, w2, hw)
    \/ HandleSearchWholeImage
    \/ \E h \in handlers, response \in PageResponses :
        \E w1 \in PageWrites(response) : \E w2 \in Retries(w1) :
            WholeImageResponse(h, response, w1, w2)
    \/ \E image \in Images : UploadImage(image)
    \/ ClearImage
    \/ \E id \in {GetHistory(ls)[i].id : i \in 1..Len(GetHistory(ls))},
          hw \in HistoryWrites : HistoryDelete(id, hw)
    \/ HistoryClearAll
    \/ \E step \in ClockSteps : Tick(step)

Init == ShopInit /\ PanelInit /\ CacheInit(FillerStore(0))

InitApi ==
    /\ ShopInit
    /\ PanelInit
    /\ pnlUrl = "none"
    /\ \E store \in InitialStores : CacheInit(store)

InitPage == ShopInit /\ PanelInit /\ pnlUrl = "none" /\ CacheInit(FillerStore(0))

(***************************************************************************)
(* The storage functions of lib/cache.ts called on their own, over a       *)
(* storage that holds a cache and a history log.                           *)
(***************************************************************************)

\* The log left by earlier sessions: the entry at position j is for the
\* j-th most recent image, analysed at the time its cache entry was written.
HistoryFiller(m) ==
    [j \in 1..m |->
        [id |-> [t |-> MAX_CACHE_ENTRIES + 1 - j, r |-> 1],
         timestamp |-> MAX_CACHE_ENTRIES + 1 - j,
         imageHash |-> GenerateImageHash(FillerImage(MAX_CACHE_ENTRIES + 1 - j)),
         imageThumbnail |-> FillerImage(MAX_CACHE_ENTRIES + 1 - j),
         objectCount |-> 1, provider |-> "google"]]

\* A storage with n cache entries and a log of m entries.
StorageWith(n, m) ==
    IF m = 0 THEN FillerStore(n)
    ELSE SetItem(FillerStore(n), HISTORY_KEY, HistoryStringify(HistoryFiller(m)))

\* The base64 text "JJR/Nb4Y+6": its hash number is 65, that of the text "A",
\* so that its fingerprint v1_65_10 begins with the fingerprint v1_65_1.
LongImage == <<74, 74, 82, 47, 78, 98, 52, 89, 43, 54>>

\* A storage with the detection of the image "A" and that of LongImage.
StorageWithLongImage ==
    SetItem(FillerStore(1),
            StorageKey(DetectCacheKey("google"), GenerateImageHash(LongImage)),
            JsonStringify([data |-> Ok(1), timestamp |-> 1,
                           imageHash |-> GenerateImageHash(LongImage)]))

\* The storage starts empty, or with the cache and the log at their caps, or
\* with the entries of two images.
StorageInitialStores ==
    {StorageWith(0, 0), StorageWith(MAX_CACHE_ENTRIES, MAX_HISTORY_ENTRIES),
     StorageWithLongImage}

\* The images history entries are added for: a new one, the one of the last
\* listed entry and the one of the first.
HistoryImages ==
    {<<65, 97>>,
     FillerImage(MAX_CACHE_ENTRIES + 1 - MAX_HISTORY_ENTRIES),
     FillerImage(MAX_CACHE_ENTRIES)}

\* addToHistory(entry), called as handleBoost calls it.
AddToHistoryCalled(image, provider, hw) ==
    /\ invocations < MaxCalls
    /\ LET add == AddToHistory(ls,
                      [timestamp |-> now, imageHash |-> GenerateImageHash(image),
                       imageThumbnail |-> IF Len(image) < 50000 THEN image
                                          ELSE NoImage,
                       objectCount |-> 1, provider |-> provider],
                      now, hw)
       IN /\ ls' = add.store
          /\ log' = [NoLog EXCEPT !.add = add.log]
    /\ invocations' = invocations + 1
    /\ UNCHANGED <<now, ticks, imageBase64, objects, isLoading, isSearching,
                   visualSearchResult, cacheStatus, currentImageHash, handlers>>
    /\ UNCHANGED <<shopVars, panelVars>>

\* removeFromHistory(id)
RemoveFromHistoryCalled(id, hw) ==
    /\ invocations < MaxCalls
    /\ ls' = RemoveFromHistory(ls, id, hw)
    /\ log' = NoLog
    /\ invocations' = invocations + 1
    /\ UNCHANGED <<now, ticks, imageBase64, objects, isLoading, isSearching,
                   visualSearchResult, cacheStatus, currentImageHash, handlers>>
    /\ UNCHANGED <<shopVars, panelVars>>

\* clearHistory()
ClearHistoryCalled ==
    /\ invocations < MaxCalls
    /\ ls' = ClearHistory(ls)
    /\ log' = NoLog
    /\ invocations' = invocations + 1
    /\ UNCHANGED <<now, ticks, imageBase64, objects, isLoading, isSearching,
                   visualSearchResult, cacheStatus, currentImageHash, handlers>>
    /\ UNCHANGED <<shopVars, panelVars>>

\* clearCacheForImage(imageHash)
ClearCacheForImageCalled(image) ==
    /\ invocations < MaxCalls
    /\ ls' = ClearCacheForImage(ls, GenerateImageHash(image))
    /\ log' = NoLog
    /\ invocations' = invocations + 1
    /\ UNCHANGED <<now, ticks, imageBase64, objects, isLoading, isSearching,
                   visualSearchResult, cacheStatus, currentImageHash, handlers>>
    /\ UNCHANGED <<shopVars, panelVars>>

\* clearAllCache()
ClearAllCacheCalled ==
    /\ invocations < MaxCalls
    /\ ls' = ClearAllCache(ls)
    /\ log' = NoLog
    /\ invocations' = invocations + 1
    /\ UNCHANGED <<now, ticks, imageBase64, objects, isLoading, isSearching,
                   visualSearchResult, cacheStatus, currentImageHash, handlers>>
    /\ UNCHANGED <<shopVars, panelVars>>

\* The ids of the listed history entries and one that no entry has.
HistoryIds(store) ==
    {GetHistory(store)[i].id : i \in 1..Len(GetHistory(store))}
        \cup {[t |-> 0, r |-> 0]}

\* A cache operation: a search function (lookup with expiry, write with
\* cleanup or quota eviction) or an invalidation.
CacheOperation ==
    \/ \E image \in ApiImages, useCache \in BOOLEAN :
            detectObjects(image, "google", useCache)
    \/ \E h \in handlers, response \in Responses :
        \E w1 \in Writes(response) : \E w2 \in Retries(w1) :
            SearchReturns(h, response, w1, w2)
    \/ \E image \in ApiImages : ClearCacheForImageCalled(image)
    \/ ClearAllCacheCalled

\* A history operation.
HistoryOperation ==
    \/ \E image \in HistoryImages, hw \in HistoryWrites :
            AddToHistoryCalled(image, "google", hw)
    \/ \E id \in HistoryIds(ls), hw \in HistoryWrites :
            RemoveFromHistoryCalled(id, hw)
    \/ ClearHistoryCalled

NextStorage ==
    \/ CacheOperation
    \/ HistoryOperation
    \/ \E step \in ClockSteps : Tick(step)

InitStorage ==
    /\ ShopInit
    /\ PanelInit
    /\ pnlUrl = "none"
    /\ \E store \in StorageInitialStores : CacheInit(store)

(***************************************************************************)
(* The cache keys of the search functions (lib/api.ts), for requests that  *)
(* differ in provider, bounding box and query.  Numbers are in thousandths.*)
(***************************************************************************)

\* Number.prototype.toFixed(2): the digits of the value rounded to hundredths.
ToFixed2Digits(v) ==
    LET h == (v + 5) \div 10
    IN <<h \div 100, (h % 100) \div 10, h % 10>>

\* toFixed(2) as text, and as the char codes generateImageHash reads.
ToFixed2(v) ==
    LET d == ToFixed2Digits(v)
    IN <<DigitChars[d[1] + 1], ".", DigitChars[d[2] + 1], DigitChars[d[3] + 1]>>

ToFixed2Codes(v) ==
    LET d == ToFixed2Digits(v)
    IN <<48 + d[1], 46, 48 + d[2], 48 + d[3]>>

NoBox == [set |-> FALSE, x |-> 0, y |-> 0, width |-> 0, height |-> 0]

Box(x, y, width, height) ==
    [set |-> TRUE, x |-> x, y |-> y, width |-> width, height |-> height]

\* visualSearch: `visual_search${bboxKey}`
VisualCacheKeyFor(box) ==
    IF box.set
    THEN <<"visual_search", "_">> \o ToFixed2(box.x) \o <<"_">> \o ToFixed2(box.y)
            \o <<"_">> \o ToFixed2(box.width) \o <<"_">> \o ToFixed2(box.height)
    ELSE VisualCacheKey

\* String.prototype.slice(-20)
SliceLast20(str) == SubSeq(str, Max(1, Len(str) - 19), Len(str))

\* shoppingSearch: bboxKey and cacheKeyBase, as char codes
ShoppingBboxKey(box) ==
    IF box.set
    THEN <<95>> \o ToFixed2Codes(box.x) \o <<95>> \o ToFixed2Codes(box.y)
    ELSE <<>>

ShoppingCacheKeyBase(query, url, box) ==
    IF url # <<>>
    THEN query \o <<95, 105, 109, 103, 95>> \o SliceLast20(url) \o ShoppingBboxKey(box)
    ELSE query

KeyRequest(fn, provider, image, query, url, box) ==
    [fn |-> fn, provider |-> provider, image |-> image, query |-> query,
     url |-> url, box |-> box]

\* The requests the keys are compared for: two providers; no box, a box, one
\* of another height, one that differs past the second decimal; two queries;
\* an image search over two boxes with the same corner.
KeyRequests ==
    <<KeyRequest("detect", "google", <<65, 97>>, <<>>, <<>>, NoBox),
      KeyRequest("detect", "openai", <<65, 97>>, <<>>, <<>>, NoBox),
      KeyRequest("visual", "none", <<65, 97>>, <<>>, <<>>, NoBox),
      KeyRequest("visual", "none", <<65, 97>>, <<>>, <<>>, Box(100, 100, 200, 200)),
      KeyRequest("visual", "none", <<65, 97>>, <<>>, <<>>, Box(100, 100, 200, 500)),
      KeyRequest("visual", "none", <<65, 97>>, <<>>, <<>>, Box(104, 100, 200, 200)),
      KeyRequest("shopping", "none", <<>>, <<65, 97>>, <<>>, NoBox),
      KeyRequest("shopping", "none", <<>>, <<66, 66>>, <<>>, NoBox),
      KeyRequest("shopping", "none", <<>>, <<>>, <<104, 47, 97>>, Box(100, 100, 200, 200)),
      KeyRequest("shopping", "none", <<>>, <<>>, <<104, 47, 97>>, Box(100, 100, 200, 500))>>

\* cacheKey and fingerprint of a request
RequestCacheKey(req) ==
    CASE req.fn = "detect" -> DetectCacheKey(req.provider)
      [] req.fn = "visual" -> VisualCacheKeyFor(req.box)
      [] OTHER -> ShoppingCacheKey

RequestHash(req) ==
    IF req.fn = "shopping"
    THEN GenerateImageHash(ShoppingCacheKeyBase(req.query, req.url, req.box))
    ELSE GenerateImageHash(req.image)

\* A search function is called for the i-th request and runs up to its await,
\* or returns the cached result.
KeyedSearchCalled(i, useCache) ==
    /\ invocations < MaxCalls
    /\ Cardinality(handlers) < MaxPending
    /\ LET req == KeyRequests[i]
           started == ApiStart(ls, RequestCacheKey(req), RequestHash(req),
                               useCache, now)
       IN /\ ls' = started.store
          /\ log' = [NoLog EXCEPT !.gets = started.gets]
          /\ handlers' = handlers \cup
                {[id |-> FreeHandlerId, kind |-> "keyed", req |-> i,
                  slot |-> started.slot]}
    /\ invocations' = invocations + 1
    /\ UNCHANGED <<now, ticks, imageBase64, objects, isLoading, isSearching,
                   visualSearchResult, cacheStatus, currentImageHash>>
    /\ UNCHANGED <<shopVars, panelVars>>

\* The API answers the request of a call (its answer is told apart by the
\* request it is for) or fails, and the search function returns.
KeyedSearchReturns(h, ok, w1, w2) ==
    /\ h \in handlers
    /\ h.kind = "keyed"
    /\ h.slot.state = "pending"
    /\ LET req == KeyRequests[h.req]
           response == IF ok THEN [kind |-> "data", data |-> Ok(h.req)]
                       ELSE [kind |-> "network", data |-> NetworkError]
       IN \E o \in ApiFinish(ls, RequestCacheKey(req), RequestHash(req),
                             response, now, w1, w2) :
             /\ ls' = o.store
             /\ log' = [NoLog EXCEPT !.set = o.set]
             /\ handlers' = (handlers \ {h}) \cup {[h EXCEPT !.slot = Done(o.ret)]}
    /\ UNCHANGED <<now, ticks, invocations, imageBase64, objects, isLoading,
                   isSearching, visualSearchResult, cacheStatus,
                   currentImageHash>>
    /\ UNCHANGED <<shopVars, panelVars>>

\* The caller takes the result of a call that has returned.
KeyedResultTaken(h) ==
    /\ h \in handlers
    /\ h.kind = "keyed"
    /\ h.slot.state = "done"
    /\ handlers' = handlers \ {h}
    /\ log' = NoLog
    /\ UNCHANGED <<ls, now, ticks, invocations, imageBase64, objects, isLoading,
                   isSearching, visualSearchResult, cacheStatus,
                   currentImageHash>>
    /\ UNCHANGED <<shopVars, panelVars>>

\* A stored text JSON.parse throws on (the storage of the origin is open to
\* every script of the origin and to the user).
CorruptValue ==
    [text |-> "garbage", fields |-> {}, data |-> NoData, timestamp |-> 0,
     imageHash |-> <<>>]

\* The storage starts empty, or with a corrupt text under the key of the
\* first request.
KeysInitialStores ==
    {FillerStore(0),
     SetItem(FillerStore(0),
             StorageKey(RequestCacheKey(KeyRequests[1]), RequestHash(KeyRequests[1])),
             CorruptValue)}

InitKeys ==
    /\ ShopInit
    /\ PanelInit
    /\ pnlUrl = "none"
    /\ \E store \in KeysInitialStores : CacheInit(store)

NextKeys ==
    \/ \E i \in 1..Len(KeyRequests), useCache \in BOOLEAN :
            KeyedSearchCalled(i, useCache)
    \/ \E h \in handlers, ok \in BOOLEAN :
        \E w1 \in WriteOutcomes : \E w2 \in Retries(w1) :
            KeyedSearchReturns(h, ok, w1, w2)
    \/ \E h \in handlers : KeyedResultTaken(h)

(***************************************************************************)
(* Currency of a product: handle_serpapi_response and detect_currency of   *)
(* GoogleLensProductsAdapter and of ShoppingSearchAdapter.  A price is the *)
(* sequence of its characters.                                             *)
(***************************************************************************)

\* The letters of the prices and patterns, in upper case (the i of a regexp).
UpcaseChar(c) ==
    CASE c = "s" -> "S" [] c = "g" -> "G" [] c = "d" -> "D" [] c = "u" -> "U"
      [] OTHER -> c

Upcase(str) == [i \in 1..Len(str) |-> UpcaseChar(str[i])]

\* price_str.match?(/a|b/): some alternative occurs in the string
Match(str, alternatives) == \E part \in alternatives : Includes(str, part)

\* price_str.match?(/a|b/i)
MatchI(str, alternatives) ==
    \E part \in alternatives : Includes(Upcase(str), Upcase(part))

SgdPattern ==
    {<<"S", "$">>, <<"S", "G", "D">>,
     <<"S", "i", "n", "g", "a", "p", "o", "r", "e">>}

UsdPattern ==
    {<<"U", "S", "D">>, <<"U", "S", "$">>,
     <<"U", "n", "i", "t", "e", "d", " ", "S", "t", "a", "t", "e", "s">>}

\* The case of detect_currency over the symbols, in the order of its whens.
SymbolCase(price_str, whens) ==
    IF \E i \in 1..Len(whens) : Includes(price_str, <<whens[i][1]>>)
    THEN whens[CHOOSE i \in 1..Len(whens) :
                 /\ Includes(price_str, <<whens[i][1]>>)
                 /\ \A j \in 1..(i - 1) : ~Includes(price_str, <<whens[j][1]>>)][2]
    ELSE Null

\* GoogleLensProductsAdapter.detect_currency of a price that is not nil
LensDetectCurrency(price_str, country) ==
    IF MatchI(price_str, SgdPattern) THEN "SGD"
    ELSE IF /\ country = "sg"
            /\ Match(price_str, {<<"$">>})
            /\ ~MatchI(price_str, UsdPattern)
    THEN "SGD"
    ELSE SymbolCase(price_str,
                    <<<<"$", "USD">>, <<"EURO SIGN", "EUR">>,
                      <<"POUND SIGN", "GBP">>, <<"YEN SIGN", "JPY">>,
                      <<"RUPEE SIGN", "INR">>>>)

\* ShoppingSearchAdapter.detect_currency of a price that is not nil: its when
\* /S\$/ comes after its when /\$/.
ShopDetectCurrency(price_string) ==
    IF Includes(price_string, <<"$">>) THEN "USD"
    ELSE IF Includes(price_string, <<"EURO SIGN">>) THEN "EUR"
    ELSE IF Includes(price_string, <<"POUND SIGN">>) THEN "GBP"
    ELSE IF Includes(price_string, <<"YEN SIGN">>) THEN "JPY"
    ELSE IF Includes(price_string, <<"S", "$">>) THEN "SGD"
    ELSE Null

\* An item of the provider's answer: its price text (has tells whether there
\* is one) and the currency the provider names, Null when it names none.
PriceItem(has, value, currency) ==
    [has |-> has, value |-> value, currency |-> currency]

\* item.dig("price", "currency") || detect_currency(raw_price, country)
LensCurrency(item, country) ==
    IF item.currency # Null THEN item.currency
    ELSE IF ~item.has THEN Null
    ELSE LensDetectCurrency(item.value, country)

\* detect_currency(item["price"])
ShopCurrency(item) ==
    IF ~item.has THEN Null ELSE ShopDetectCurrency(item.value)

PriceTexts ==
    {<<"S", "$", "2", "0">>, <<"$", "2", "0">>, <<"U", "S", "$", "2", "0">>,
     <<"U", "S", "D", " ", "2", "0">>, <<"$", "2", "0", " ", "U", "S", "D">>,
     <<"s", "g", "d", " ", "2", "0">>, <<"EURO SIGN", "2", "0">>,
     <<"POUND SIGN", "2", "0">>, <<"YEN SIGN", "2", "0">>,
     <<"RUPEE SIGN", "2", "0">>, <<"2", "0">>}

PriceItems ==
    {PriceItem(TRUE, value, currency) :
        value \in PriceTexts, currency \in {Null, "EUR", "SGD"}}
    \cup {PriceItem(FALSE, <<>>, Null)}

Countries == {"sg", "us", "gb"}

CurrencyCall(entry, item, country, currency) ==
    [pc |-> "done", entry |-> entry, item |-> item, country |-> country,
     currency |-> currency]

\* GoogleLensProductsAdapter.handle_serpapi_response builds a product.
LensProductBuilt ==
    /\ adapterCall.pc = "idle"
    /\ \E item \in PriceItems, country \in Countries :
        adapterCall' =
            CurrencyCall("GoogleLensProductsAdapter.handle_serpapi_response",
                         item, country, LensCurrency(item, country))
    /\ UNCHANGED <<shopReq, shopCalls, shopResult, shopPc>>
    /\ UNCHANGED <<panelVars, cacheVars>>

\* ShoppingSearchAdapter.handle_serpapi_response builds a product; country is
\* the gl of the request.
ShopProductBuilt ==
    /\ adapterCall.pc = "idle"
    /\ \E item \in PriceItems, country \in Countries :
        adapterCall' =
            CurrencyCall("ShoppingSearchAdapter.handle_serpapi_response",
                         item, country, ShopCurrency(item))
    /\ UNCHANGED <<shopReq, shopCalls, shopResult, shopPc>>
    /\ UNCHANGED <<panelVars, cacheVars>>

NextCurrency == LensProductBuilt \/ ShopProductBuilt \/ AdapterReturned

(***************************************************************************)
(* A storage that holds entries of two days: cleanupOldEntries runs only   *)
(* after a write, so entries that have expired stay until the next write.  *)
(***************************************************************************)

\* How many of the stored entries were written a cache lifetime earlier.
AgedCount == MAX_CACHE_ENTRIES \div 2 - 1

\* MAX_CACHE_ENTRIES entries, the first aged of them written a lifetime
\* before the others.
AgedStore(aged) ==
    [k \in {FillerKey(i) : i \in 1..MAX_CACHE_ENTRIES} |->
        LET i == CHOOSE j \in 1..MAX_CACHE_ENTRIES : k = FillerKey(j)
        IN JsonStringify([data |-> Ok(1),
                          timestamp |-> IF i <= aged THEN i
                                        ELSE MAX_CACHE_AGE_MS + i,
                          imageHash |-> GenerateImageHash(FillerImage(i))])]

\* The storage is at the cap, with entries that have expired or without.
CleanupInitialStores == {AgedStore(0), AgedStore(AgedCount)}

InitCleanup ==
    /\ ShopInit
    /\ PanelInit
    /\ pnlUrl = "none"
    /\ ls \in CleanupInitialStores
    /\ now = MAX_CACHE_AGE_MS + MAX_CACHE_ENTRIES
    /\ ticks = 0
    /\ invocations = 0
    /\ imageBase64 = NoImage
    /\ objects = 0
    /\ isLoading = FALSE
    /\ isSearching = FALSE
    /\ visualSearchResult = NullResult
    /\ cacheStatus = NoCacheStatus
    /\ currentImageHash = NoHash
    /\ handlers = {}
    /\ log = NoLog

(***************************************************************************)
(* Claims about the backend fallback chain.                                *)
(***************************************************************************)

\* The image tier of the handled request produced at least one product.
ImageTierYielded ==
    /\ ImageTierTried(shopReq.url, shopReq.key)
    /\ SearchByImage(shopReq.url, shopReq.key, shopReq.lens).success
    /\ SearchByImage(shopReq.url, shopReq.key, shopReq.lens).products # <<>>

\* C1: ShoppingSearchAdapter.search never returns a result with zero products
\* and zero fallback links; when no tier yields a product the result is the
\* static fallback (non-empty merchant links and a message).
C1_NeverEmptyResult ==
    shopPc = "done" =>
        \/ shopResult.products # <<>>
        \/ /\ shopResult.shopping_links # <<>>
           /\ shopResult.message # Null

\* C2: when the image tier was tried and failed or returned no product, the
\* keyword tier is tried; its matches are the result when it succeeds, the
\* static fallback links are the result when it fails, and the request is
\* never answered with a failure.
C2_ImageFailureFallsThrough ==
    (shopPc = "done" /\ ImageTierTried(shopReq.url, shopReq.key)
        /\ ~ImageTierYielded) =>
        /\ shopCalls.serp
        /\ shopResult.success
        /\ shopReq.serp.kind = "ok" =>
              /\ shopResult.search_type = "keyword"
              /\ shopResult.products = shopReq.serp.products
        /\ shopReq.serp.kind # "ok" => shopResult = ShopFallbackSearch

\* The image tier failed with a non-2xx answer and the keyword matches came back.
C2_Witness ==
    /\ shopPc = "done"
    /\ ImageTierTried(shopReq.url, shopReq.key)
    /\ shopCalls.lens
    /\ shopReq.lens.kind = "http_error"
    /\ shopReq.serp.kind = "ok"
    /\ Len(shopReq.serp.products) = 2
    /\ shopResult.products = shopReq.serp.products

(***************************************************************************)
(* Claims about the panel's concurrent searches.                           *)
(***************************************************************************)

\* The step is the continuation of request req of the given kind.
Completes(req, kind) == req \in inflight /\ req \notin inflight' /\ req.kind = kind

\* C3: for one object, the completion of the image search never replaces or
\* clears keyword products already in the panel state, and the completion of
\* the keyword search never replaces or clears image products.
C3_SearchesIsolated ==
    [][\A req \in inflight :
          /\ (Completes(req, "image") /\ req.obj = pnlObject
                 /\ pnlKeyword.forObj = pnlObject /\ pnlKeyword.products # <<>>)
                => pnlKeyword' = pnlKeyword
          /\ (Completes(req, "keyword") /\ req.obj = pnlObject
                 /\ pnlImage.forObj = pnlObject /\ pnlImage.products # <<>>)
                => pnlImage' = pnlImage]_vars

\* C4: a result held in the state shown for the selected object was produced
\* by a request made for that object, never by a superseded request.
C4_NoStaleDelivery ==
    /\ pgVisual.set => pgVisual.forObj = pnlObject
    /\ pnlImage.set => pnlImage.forObj = pnlObject
    /\ pnlKeyword.set => pnlKeyword.forObj = pnlObject

\* C28: once the searches of an object have returned, the products saved on
\* the object are those of its image search whenever that search gave any.
C28_ImageSearchPriority ==
    (/\ inflight = {}
     /\ pnlImage.set
     /\ pnlImage.search_type = "image"
     /\ pnlImage.success
     /\ pnlImage.products # <<>>
     /\ pnlImage.forObj \in Objects) =>
        pnlSaved[pnlImage.forObj] = pnlImage.products

(***************************************************************************)
(* Claims about the browser cache and the history log.                     *)
(***************************************************************************)

\* What a lookup of the entry just written returns at time t.
ReadBack(t) ==
    GetCachedResult(ls, log.set.cacheKey, log.set.imageHash, t).ret

\* The lookup times of a read within the entry's lifetime: at once, and 24
\* hours after the write.
WithinTtl == {now, now + MAX_CACHE_AGE_MS}

\* C5 as stated: setCachedResult(key, fingerprint, v) immediately followed by
\* getCachedResult(key, fingerprint) within the 24-hour lifetime returns v.
C5_RoundTrip ==
    log.set.called =>
        \A t \in WithinTtl : ReadBack(t) = [hit |-> TRUE, data |-> log.set.data]

\* C5, amended: when the storage write of setCachedResult(key, fingerprint, v)
\* succeeds (at the first attempt or at the retry), a getCachedResult(key,
\* fingerprint) that follows at once, or any time within the 24-hour lifetime,
\* returns v unchanged.
C5_RoundTripWhenStored ==
    (log.set.called /\ log.set.stored) =>
        \A t \in WithinTtl : ReadBack(t) = [hit |-> TRUE, data |-> log.set.data]

\* A write that the retry stored after a batch of entries was evicted.
C5_Witness ==
    /\ log.set.called
    /\ log.set.stored
    /\ log.set.w1 = "quota"
    /\ log.set.removed # {}
    /\ log.set.data = Ok(2)

\* C6: a getCachedResult on a key whose entry is older than 24 hours returns
\* absent and removes the entry; a lookup of a key with no entry returns
\* absent, and a key gets an entry only by a setCachedResult that stores it,
\* so that an expired entry is never returned and never comes back.
C6_ExpiredPurged ==
    /\ [](\A g \in log.gets :
            /\ (g.found /\ Expired(g.timestamp, now))
                  => (~g.hit /\ g.key \notin DOMAIN ls)
            /\ ~g.found => ~g.hit)
    /\ [][\A k \in CacheKeys(ls') \ CacheKeys(ls) :
            log'.set.called /\ log'.set.stored /\ log'.set.key = k]_vars

\* A lookup that met an expired entry.
C6_Witness ==
    \E g \in log.gets : g.found /\ Expired(g.timestamp, now) /\ ~g.hit

ImageHashOf(store, k) == store[k].imageHash

\* C9: handleBoost with skipCache leaves no cache entry for the image's
\* fingerprint when it starts its requests, and the detection and the visual
\* search it delivers have fromCache false.
C9_RefreshBypassesCache ==
    /\ [](log.boost.settled /\ log.boost.skip =>
            ~log.boost.detect.fromCache /\ ~log.boost.search.fromCache)
    /\ [][\A h \in handlers' :
            (h.kind = "boost" /\ h.skip /\ \A g \in handlers : g.id # h.id) =>
                \A k \in CacheKeys(ls') :
                    Parsable(ls'[k]) => ImageHashOf(ls', k) # h.imageHash]_vars

\* A refresh that found valid entries for the image and delivered a fresh
\* detection.
C9_Witness ==
    /\ log.boost.settled
    /\ log.boost.skip
    /\ log.boost.hadEntry
    /\ log.boost.detect.success
    /\ log.boost.search.success

\* C10: the history log never holds two entries with the same fingerprint,
\* and an addToHistory for a fingerprint already in the log leaves the length
\* of the log and every other entry as they were and gives the entry found,
\* under its old id, the time of the call as timestamp.
C10_HistoryDeduplicated ==
    LET history == GetHistory(ls)
        before == log.add.before
        i == log.add.existingIndex
    IN /\ \A a, b \in 1..Len(history) :
            a # b => history[a].imageHash # history[b].imageHash
       /\ (log.add.called /\ log.add.stored /\ i > 0) =>
            /\ Len(history) = Len(before)
            /\ history[i].id = before[i].id
            /\ history[i].imageHash = log.add.imageHash
            /\ history[i].timestamp = now
            /\ \A j \in 1..Len(history) : j # i => history[j] = before[j]

\* A repeated analysis of an image, later than the first, with another image
\* in the log.
C10_Witness ==
    /\ log.add.called
    /\ log.add.stored
    /\ log.add.existingIndex > 0
    /\ log.add.before[log.add.existingIndex].timestamp < now

(***************************************************************************)
(* Claims about the history log and its independence from the cache.       *)
(***************************************************************************)

\* The entries of the log before the last addToHistory that the log no
\* longer holds.
DroppedByAdd ==
    {e \in {log.add.before[i] : i \in 1..Len(log.add.before)} :
        \A j \in 1..Len(GetHistory(ls)) : GetHistory(ls)[j].imageHash # e.imageHash}

\* C11: the history log holds at most 20 entries, they are listed most
\* recent first by timestamp, and an addToHistory only ever discards entries
\* that are no more recent than every entry it keeps.
C11_HistoryMostRecent ==
    LET history == GetHistory(ls)
    IN /\ Len(history) <= MAX_HISTORY_ENTRIES
       /\ \A i \in 1..Len(history) : \A j \in (i + 1)..Len(history) :
             history[i].timestamp >= history[j].timestamp
       /\ (log.add.called /\ log.add.stored) =>
             \A e \in DroppedByAdd : \A j \in 1..Len(history) :
                 e.timestamp <= history[j].timestamp

\* The value kept under the history key, and the cache entries.
HistoryItem(store) ==
    IF HISTORY_KEY \in DOMAIN store THEN <<store[HISTORY_KEY]>> ELSE <<>>

CacheItems(store) == [k \in CacheKeys(store) |-> store[k]]

\* C12: a cache operation (lookup with expiry, write with capacity cleanup or
\* quota eviction, clearCacheForImage, clearAllCache) leaves the history log
\* as it was, and a history operation (addToHistory, removeFromHistory,
\* clearHistory) leaves every cache entry as it was.
C12_IndependentLifecycles ==
    [][/\ CacheOperation => HistoryItem(ls') = HistoryItem(ls)
       /\ HistoryOperation => CacheItems(ls') = CacheItems(ls)]_vars

\* A write that hit the quota evicted cache entries while the log was held.
C12_Witness ==
    /\ log.set.called
    /\ log.set.w1 = "quota"
    /\ Cardinality(log.set.removed) = QUOTA_EVICT_COUNT
    /\ Len(GetHistory(ls)) = MAX_HISTORY_ENTRIES

(***************************************************************************)
(* Claims about the adapter boundary.                                      *)
(***************************************************************************)

\* C13: every call of an adapter entry point ends with a returned result that
\* carries a success flag; no exception leaves the entry point, whatever the
\* credentials, the input and the provider's answer.
C13_AdaptersNeverRaise ==
    adapterCall.pc = "done" => ~adapterCall.outcome.raised

\* An image reference the provider cannot fetch: not http(s), or local.
NotReachable(url) == ~IsHttpUrl(url) \/ IsLocalUrl(url)

ImageSearchEntries ==
    {"GoogleLensProductsAdapter.search", "ShoppingSearchAdapter.search_by_image"}

\* C14: for an image reference that is not network-reachable the image search
\* ends at once with a failure result that carries an error and no products,
\* and the provider is not called: in the backend for a non-http(s) or local
\* URL, in the panel for a blob: URL (no image request is started).
C14_UnreachableShortCircuits ==
    /\ (/\ adapterCall.pc = "done"
        /\ adapterCall.entry \in ImageSearchEntries
        /\ NotReachable(adapterCall.url)) =>
          /\ ~adapterCall.outcome.raised
          /\ ~adapterCall.outcome.success
          /\ adapterCall.outcome.error # Null
          /\ adapterCall.outcome.products = <<>>
          /\ ~adapterCall.called
    /\ pnlUrl = "blob" =>
          /\ \A r \in inflight : r.kind # "image"
          /\ pnlHasSearched =>
                /\ pnlImage.set
                /\ ~pnlImage.success
                /\ pnlImage.error # Null
                /\ pnlImage.products = <<>>

\* The panel has skipped the image search for a blob: URL while the backend
\* has refused a localhost URL with the key configured.
C14_Witness ==
    /\ pnlUrl = "blob"
    /\ pnlHasSearched
    /\ pnlImage.source = "skipped"
    /\ \E r \in inflight : r.kind = "keyword"
    /\ adapterCall.pc = "done"
    /\ adapterCall.entry = "GoogleLensProductsAdapter.search"
    /\ adapterCall.url = "localhost"
    /\ adapterCall.key = "set"
    /\ adapterCall.outcome.error = "Local URL not accessible by SerpApi"

(***************************************************************************)
(* Claims about the Boost flow.                                            *)
(***************************************************************************)

\* C15: handleBoost starts detection and the whole-image visual search
\* together, and once both have settled the visual-search result is applied
\* to the page whatever the detection did, and the detected objects are
\* applied whenever the detection succeeded, whatever the search did.
C15_BoostFaultIsolated ==
    /\ \A h \in handlers : h.kind = "boost" =>
          h.detect.state # "none" /\ h.visual.state # "none"
    /\ log.boost.settled =>
          /\ visualSearchResult = log.boost.search
          /\ log.boost.detect.success => objects = log.boost.detect.ver
          /\ ~isLoading /\ ~isSearching

\* A Boost settled with a failed detection and a successful search that the
\* page now shows.
C15_Witness ==
    /\ log.boost.settled
    /\ ~log.boost.detect.success
    /\ log.boost.search.success
    /\ ~log.boost.search.fromCache
    /\ visualSearchResult.success

(***************************************************************************)
(* Claims about the merged product result.                                 *)
(***************************************************************************)

\* A held result is a set of matches of the given origin for the object.
MatchesOf(r, origin, obj) ==
    /\ r.set /\ r.success /\ r.products # <<>>
    /\ r.search_type = origin /\ r.forObj = obj

\* What the backend and the client wrapper hand to the panel lists the
\* provider's products in the provider's order.
ProviderOrderKept ==
    \A url \in UrlKinds, key \in KeyStates :
      \A l \in ProviderOutcomes("image"), s \in ProviderOutcomes("keyword") :
        LET r == ToClient(ShoppingSearch(url, key, l, s), NoObject)
        IN /\ r.search_type = "image" => r.products = l.products
           /\ r.search_type = "keyword" => r.products = s.products

\* Every product of a held result comes from the provider its tag names.
TaggedByOrigin(r) ==
    r.search_type \in {"image", "keyword"} =>
        \A i \in 1..Len(r.products) : r.products[i].from = r.search_type

\* C16: when the image search and the keyword search both return matches for
\* the same object the panel holds both sets, the later one arriving without
\* touching the earlier; each set is tagged with its origin, and its products
\* are in the order the provider returned them.
C16_BothSetsKept ==
    /\ [](ProviderOrderKept /\ TaggedByOrigin(pnlImage) /\ TaggedByOrigin(pnlKeyword))
    /\ [][\A obj \in Objects :
            /\ (/\ pnlImage' # pnlImage
                /\ MatchesOf(pnlImage', "image", obj)
                /\ MatchesOf(pnlKeyword, "keyword", obj)) =>
                    pnlKeyword' = pnlKeyword
            /\ (/\ pnlKeyword' # pnlKeyword
                /\ MatchesOf(pnlKeyword', "keyword", obj)
                /\ MatchesOf(pnlImage, "image", obj)) =>
                    pnlImage' = pnlImage]_vars

\* The panel holds image matches and keyword matches for the selected object.
C16_Witness ==
    /\ pnlObject # NoObject
    /\ MatchesOf(pnlImage, "image", pnlObject)
    /\ MatchesOf(pnlKeyword, "keyword", pnlObject)
    /\ inflight = {}

(***************************************************************************)
(* Claims about the cache keys.                                            *)
(***************************************************************************)

\* What the claim says a cache key tells apart: the search function, the
\* provider, the crop rect at two decimals and the query text.
Discriminators(req) ==
    [fn |-> req.fn, provider |-> req.provider, query |-> req.query,
     rect |-> IF req.box.set
              THEN <<ToFixed2Digits(req.box.x), ToFixed2Digits(req.box.y),
                     ToFixed2Digits(req.box.width), ToFixed2Digits(req.box.height)>>
              ELSE <<>>]

SameEntry(i, j) == Discriminators(KeyRequests[i]) = Discriminators(KeyRequests[j])

\* C17: a request is only ever served from the cache with the answer to a
\* request of the same provider, crop rect (at two decimals) and query, and a
\* write only ever replaces the entry of such a request.
C17_KeysDiscriminate ==
    /\ [](\A h \in handlers :
            (h.kind = "keyed" /\ h.slot.state = "done" /\ h.slot.ret.fromCache) =>
                SameEntry(h.slot.ret.ver, h.req))
    /\ [][\A h \in handlers :
            (/\ h.kind = "keyed" /\ h.slot.state = "pending"
             /\ log'.set.called /\ log'.set.stored
             /\ log'.set.key \in DOMAIN ls
             /\ Parsable(ls[log'.set.key])) =>
                SameEntry(ls[log'.set.key].data.ver, h.req)]_vars

\* C18: a cache read that finds a text it cannot parse returns a miss and
\* leaves no entry under the key it read.
C18_CorruptReadPurges ==
    [][\A g \in log'.gets :
          (g.key \in DOMAIN ls /\ ~Parsable(ls[g.key])) =>
              (~g.hit /\ g.key \notin DOMAIN ls')]_vars

(***************************************************************************)
(* Claims about pixel rects.                                               *)
(***************************************************************************)

\* Whether a finished call computed its rect from the image size it was given.
FromImageSize(call) ==
    /\ call.pc = "done"
    /\ call.entry \in {"GoogleLensProductsAdapter.build_imgix_crop_url",
                       "ThumbnailService#calculate_crop_area"}
    /\ call.params.rect = <<>>
    /\ call.dims # NoDimensions

\* C19: the crop of the box {x: 0.48, y: 0.53, width: 0.10, height: 0.11} on
\* an image of 5504 x 8256 pixels is the rect 2642,4375,550,908.
C19_DocumentedRect ==
    (/\ adapterCall.pc = "done"
     /\ adapterCall.entry = "GoogleLensProductsAdapter.build_imgix_crop_url"
     /\ adapterCall.params.rect = <<>>
     /\ adapterCall.box = NormalizedBox(48, 53, 10, 11)
     /\ adapterCall.dims = ImageDimensions(5504, 8256)) =>
        adapterCall.rect = PixelRect(2642, 4375, 550, 908)

\* C20: the pixel rect computed from a box of the unit square and an image
\* size lies inside the image.
C20_RectInsideImage ==
    (FromImageSize(adapterCall) /\ adapterCall.box \in ValidBoxes) =>
        /\ adapterCall.rect.x >= 0
        /\ adapterCall.rect.y >= 0
        /\ adapterCall.rect.x + adapterCall.rect.width <= adapterCall.dims.width
        /\ adapterCall.rect.y + adapterCall.rect.height <= adapterCall.dims.height

\* A box that reaches the right and bottom edges, on an image whose size the
\* box components do not divide.
C20_Witness ==
    /\ FromImageSize(adapterCall)
    /\ adapterCall.box = NormalizedBox(50, 50, 50, 50)
    /\ adapterCall.dims = ImageDimensions(3, 3)
    /\ adapterCall.rect = PixelRect(1, 1, 1, 1)

\* C21: a crop of a crop is the rect that the one box the two boxes amount to
\* gives on the first rect (stated for the calls whose conversions do not
\* depend on Float rounding).
C21_NestedCropsCompose ==
    (/\ adapterCall.pc = "done"
     /\ adapterCall.entry = "GoogleLensProductsAdapter.build_imgix_crop_url (twice)"
     /\ adapterCall.certain) =>
        adapterCall.rect = adapterCall.direct

\* The pairs of a query that are not named rect, w, dpr or fit.
OtherPairs(query) ==
    SelectSeq(query, LAMBDA pair : pair[1] \notin {"rect", "w", "dpr", "fit"})

PairsNamed(query, name) == SelectSeq(query, LAMBDA pair : pair[1] = name)

\* C22: the URL built for a rect has the rect as its one rect parameter and
\* min(rect width, 500) as its one w, has no dpr and no fit, and has every
\* other parameter of the original URL as it was.
C22_CropUrlParameters ==
    (/\ adapterCall.pc = "done"
     /\ adapterCall.entry = "GoogleLensProductsAdapter.build_imgix_crop_url") =>
        /\ PairsNamed(adapterCall.out, "rect") =
              <<QueryPair("rect", <<adapterCall.rect.x, adapterCall.rect.y,
                                    adapterCall.rect.width, adapterCall.rect.height>>)>>
        /\ PairsNamed(adapterCall.out, "w") =
              <<QueryPair("w", <<IF adapterCall.rect.width < 500
                                 THEN adapterCall.rect.width ELSE 500>>)>>
        /\ PairsNamed(adapterCall.out, "dpr") = <<>>
        /\ PairsNamed(adapterCall.out, "fit") = <<>>
        /\ OtherPairs(adapterCall.out) = OtherPairs(adapterCall.query)

\* C23: no rect of width 0 or height 0 goes out in a crop request.
C23_NoDegenerateCropEmitted ==
    (/\ adapterCall.pc = "done"
     /\ adapterCall.entry \in {"GoogleLensProductsAdapter.build_imgix_crop_url",
                               "ThumbnailService#calculate_crop_area"}
     /\ adapterCall.emitted) =>
        (adapterCall.rect.width > 0 /\ adapterCall.rect.height > 0)

(***************************************************************************)
(* Claims about the currency of a product.                                 *)
(***************************************************************************)

\* Whether a product was built from an item with this price text and no
\* currency of the provider's.
Inferred(call, value) ==
    /\ call.pc = "done"
    /\ call.entry \in {"GoogleLensProductsAdapter.handle_serpapi_response",
                       "ShoppingSearchAdapter.handle_serpapi_response"}
    /\ call.item.has
    /\ call.item.currency = Null
    /\ call.item.value = value

\* C24: every adapter infers SGD from "S$20", SGD from "$20" in region sg and
\* USD from "$20" in region us.
C24_CurrencyExamples ==
    /\ Inferred(adapterCall, <<"S", "$", "2", "0">>) => adapterCall.currency = "SGD"
    /\ (Inferred(adapterCall, <<"$", "2", "0">>) /\ adapterCall.country = "sg") =>
            adapterCall.currency = "SGD"
    /\ (Inferred(adapterCall, <<"$", "2", "0">>) /\ adapterCall.country = "us") =>
            adapterCall.currency = "USD"

\* A product built by GoogleLensProductsAdapter.
LensBuilt(call) ==
    /\ call.pc = "done"
    /\ call.entry = "GoogleLensProductsAdapter.handle_serpapi_response"

\* C25: the provider's currency is taken when there is one; else a marker in
\* the price (US$, USD) decides whatever the region, then the region decides a
\* bare $, then the symbol, and a price without any of them has no currency.
C25_CurrencyPrecedence ==
    LensBuilt(adapterCall) =>
        /\ adapterCall.item.currency # Null =>
                adapterCall.currency = adapterCall.item.currency
        /\ (Inferred(adapterCall, <<"U", "S", "$", "2", "0">>)
            \/ Inferred(adapterCall, <<"U", "S", "D", " ", "2", "0">>)
            \/ Inferred(adapterCall, <<"$", "2", "0", " ", "U", "S", "D">>)) =>
                adapterCall.currency = "USD"
        /\ (Inferred(adapterCall, <<"S", "$", "2", "0">>)
            \/ Inferred(adapterCall, <<"s", "g", "d", " ", "2", "0">>)) =>
                adapterCall.currency = "SGD"
        /\ Inferred(adapterCall, <<"$", "2", "0">>) =>
                adapterCall.currency = IF adapterCall.country = "sg"
                                       THEN "SGD" ELSE "USD"
        /\ Inferred(adapterCall, <<"EURO SIGN", "2", "0">>) =>
                adapterCall.currency = "EUR"
        /\ Inferred(adapterCall, <<"2", "0">>) => adapterCall.currency = Null

\* The entries a write removed that had not expired, and those it kept.
LiveRemoved == {r \in log.set.removed : ~Expired(r.timestamp, now)}

LiveKept ==
    {k \in CacheKeys(ls) : Parsable(ls[k]) /\ ~Expired(TimestampOf(ls, k), now)}

\* C26: the cleanup after a write removes no entry that has not expired when
\* at most 50 such entries are stored, and exactly the excess over 50 when
\* there are more.
C26_CleanupKeepsLive ==
    (log.set.called /\ log.set.stored /\ log.set.w1 = "ok") =>
        LET live == Cardinality(LiveRemoved) + Cardinality(LiveKept)
        IN IF live <= MAX_CACHE_ENTRIES THEN LiveRemoved = {}
           ELSE Cardinality(LiveRemoved) = live - MAX_CACHE_ENTRIES

\* C27: clearCacheForImage(h) leaves every cache entry that was stored under
\* another fingerprint in the storage as it was.
C27_ClearOnlyThatImage ==
    [][\A image \in ApiImages :
          ClearCacheForImageCalled(image) =>
              \A k \in CacheKeys(ls) :
                  (Parsable(ls[k])
                   /\ ImageHashOf(ls, k) # GenerateImageHash(image)) =>
                      (k \in DOMAIN ls' /\ ls'[k] = ls[k])]_vars

\* What detectObjects and visualSearch have cached for the image and is not
\* expired: the detection under some provider's key and the whole-image search.
CachedAnalysis(imageHash) ==
    {pair \in [detect : {GetCachedResult(ls, DetectCacheKey(p), imageHash, now).ret :
                            p \in {RequestProvider(q) : q \in Providers}},
               search : {GetCachedResult(ls, VisualCacheKey, imageHash, now).ret}] :
        pair.detect.hit /\ pair.search.hit}

\* C29: choosing the history entry of an image whose detection and visual
\* search results are cached and not expired restores those results and does
\* not report that cached data was not found.
C29_HistoryRestoresCached ==
    [][\A imageHash \in {GetHistory(ls)[i].imageHash : i \in 1..Len(GetHistory(ls))} :
          (HandleLoadHistory(imageHash) /\ CachedAnalysis(imageHash) # {})
              => /\ log'.load.error = "none"
                 /\ \E pair \in CachedAnalysis(imageHash) :
                        /\ objects' = pair.detect.data.ver
                        /\ visualSearchResult'.set
                        /\ visualSearchResult'.ver = pair.search.data.ver]_vars

\* Nothing awaits a response: no request of the panel or of
\* handleFindSimilar, and no handleBoost.
NoRequestInFlight == inflight = {} /\ handlers = {}

LoadingIndicators ==
    {pnlLoadingImage, pnlLoadingKeyword, pgIsSearching, isSearching, isLoading}

\* C30: every search ends with its loading indicator cleared: whenever no
\* request is in flight isLoadingImageSearch, isLoadingKeywordSearch,
\* isSearching and the store's loading flag are all false, and each indicator
\* that is set is eventually cleared, whatever the answers were.
C30_LoadingIndicatorsCleared ==
    /\ [](NoRequestInFlight => LoadingIndicators = {FALSE})
    /\ pnlLoadingImage ~> ~pnlLoadingImage
    /\ pnlLoadingKeyword ~> ~pnlLoadingKeyword
    /\ pgIsSearching ~> ~pgIsSearching
    /\ isSearching ~> ~isSearching
    /\ isLoading ~> ~isLoading

\* The panel has run both searches for a public URL, its last answer was
\* shoppingSearch's error result, the visual search of the Boost has failed,
\* and nothing is in flight any more.
C30_Witness ==
    /\ NoRequestInFlight
    /\ pnlHasSearched
    /\ pnlUrl = "public"
    /\ pnlKeyword.set /\ ~pnlKeyword.success /\ pnlKeyword.source = "error"
    /\ log.boost.settled /\ ~log.boost.search.success
    /\ LoadingIndicators = {FALSE}

NextShop ==
    (ShopSearchRequest \/ ShopRendered) /\ UNCHANGED <<panelVars, cacheVars>>

NextAdapters ==
    \/ LensAdapterCalled
    \/ SerpAdapterCalled
    \/ VisualAdapterCalled
    \/ AdapterReturned

\* The panel's searches and the backend's image-search entry points.
NextImageSearch == NextPanel \/ LensAdapterCalled \/ AdapterReturned

SpecShop == Init /\ [][NextShop]_vars

SpecPanel == Init /\ [][NextPanel]_vars

SpecApi == InitApi /\ [][NextApi]_vars

SpecPage == InitPage /\ [][NextPage]_vars

\* The page with its history panel: a listed entry can be chosen.
NextHistory ==
    \/ NextPage
    \/ \E imageHash \in {GetHistory(ls)[i].imageHash : i \in 1..Len(GetHistory(ls))} :
            HandleLoadHistory(imageHash)

SpecHistory == InitPage /\ [][NextHistory]_vars

\* The answers the panel's searches are examined with here: one product found
\* by the provider, the fallback rendered after a provider error, and
\* shoppingSearch's own result for a request that failed.
LoadingResults(url) ==
    {ToClient(ShoppingSearch(url, "set", out, out), NoObject) :
        out \in {[kind |-> "ok", products |-> <<[id |-> 1, from |-> "image"]>>],
                 [kind |-> "http_error", products |-> <<>>]}}
      \cup {ShoppingSearchError(NoObject)}

LoadingImageResults == LoadingResults("public")

LoadingKeywordResults == LoadingResults("none")

\* The answers to the page's requests: a success and a network error.
LoadingResponses ==
    {[kind |-> "data", data |-> Ok(1)], [kind |-> "network", data |-> NetworkError]}

\* page.tsx handleFindSimilar: it returns at once without an image or when
\* the object is not among the detected ones.
HandleFindSimilar(obj) ==
    /\ imageBase64 # NoImage
    /\ objects # 0
    /\ FindSimilar(obj)

AnswerVisualSearch == \E req \in inflight, ok \in BOOLEAN : VisualSearchDone(req, ok)

AnswerImageSearch ==
    \E req \in inflight, result \in LoadingImageResults :
        ImageSearchDone(req, ResultFor(result, req.obj))

AnswerKeywordSearch ==
    \E req \in inflight, result \in LoadingKeywordResults :
        KeywordSearchDone(req, ResultFor(result, req.obj))

AnswerBoost ==
    \E h \in handlers, response \in LoadingResponses :
        \/ DetectResponse(h, response, "ok", "ok", "ok")
        \/ VisualResponse(h, response, "ok", "ok", "ok")

\* How many times the upload and Boost buttons are used here.
MaxLoadingClicks == 3

\* The page and its product panel together.
NextLoading ==
    \/ invocations < MaxLoadingClicks /\ UploadImage(<<65, 97>>)
    \/ \E skipCache \in BOOLEAN :
          invocations < MaxLoadingClicks /\ HandleBoost("google", skipCache, "ok")
    \/ HandleFindSimilar("o1")
    \/ ManualKeywordSearch
    \/ AnswerBoost
    \/ AnswerVisualSearch
    \/ AnswerImageSearch
    \/ AnswerKeywordSearch

\* Every request is answered: fetch settles with a response or a network
\* error, and the continuation after the await then runs.
LoadingFairness ==
    /\ WF_vars(AnswerBoost)
    /\ WF_vars(AnswerVisualSearch)
    /\ WF_vars(AnswerImageSearch)
    /\ WF_vars(AnswerKeywordSearch)

SpecLoading == Init /\ [][NextLoading]_vars /\ LoadingFairness

SpecKeys == InitKeys /\ [][NextKeys]_vars

SpecCrop == Init /\ [][NextCrop]_vars

SpecCurrency == Init /\ [][NextCurrency]_vars

SpecCleanup == InitCleanup /\ [][NextApi]_vars

SpecAdapters == Init /\ [][NextAdapters]_vars

SpecImageSearch == Init /\ [][NextImageSearch]_vars

SpecStorage == InitStorage /\ [][NextStorage]_vars

Next == NextShop \/ NextPanel \/ NextApi \/ NextPage

Spec == Init /\ [][Next]_vars

=============================================================================
